---- MODULE Spec2Model ----
(***************************************************************************)
(* The lazypdf Rasterizer actor (src/unnamed/part_003): callers of         *)
(* generatePage, the event loop goroutine (mainEventLoop, processOne,      *)
(* finalCleanUp), one backgroundRender goroutine per bitmap request, and   *)
(* the Run / Stop lifecycle calls.  Beside it: the scale and rotation      *)
(* functions (scalePage, calculate_dimensions of src/main.c,               *)
(* page_get_rotation of src/unnamed/part_006) and the scale cache of the   *)
(* revision src/unnamed/part_005.                                          *)
(***************************************************************************)
EXTENDS Integers, Sequences, FiniteSets, TLC

\* ---------------------------------------------------------------- bounds
MaxCallers == 1      \* generatePage calls made over the whole lifecycle
MaxConcurrent == 2   \* generatePage calls made on a Rasterizer that stays up
DocPages == 1        \* page count of the document that Run opens
QueueCap == 2        \* rasterBufferSize handed to NewRasterizer
MaxWidth == 2        \* request widths 0..MaxWidth
MaxScaleHalves == 3  \* request scales 0, 1/2, .. MaxScaleHalves/2
MaxCoord == 2        \* coordinates of a page box, 0..MaxCoord
IntBits == 11        \* width of the C int that holds a raw rotation
CachePages == 2      \* pages of the document of the scale-cache revision
\* Largest payload, in bytes, that a reader yields.
MaxPayload == 2
MaxEditors == 2      \* concurrent editing calls on one PdfDocument
EditPages == 2       \* pages of the document that is edited
MaxOps == 2          \* cancellable native operations that are run
MaxCalls == 2        \* SaveToPNG calls of the callback revision

\* ------------------------------------------------------ program constants
ReplyCap == 1        \* replyChan := make(chan ReplyWrapper, 1)

Callers == 1..MaxCallers
Editors == 1..MaxEditors
Ops == 1..MaxOps
Calls == 1..MaxCalls
EditPageNumbers == 0..(EditPages - 1)
Concurrent == 1..MaxConcurrent
Requests == Callers \cup Concurrent   \* one request per generatePage call
PageNumbers == 0..(DocPages + 1)
RasterTypes == {"RasterImage", "RasterSVG"}

\* error values
ErrBadPage == "ErrBadPage"
ErrRasterTimeout == "ErrRasterTimeout"
ErrNotStarted == "Rasterizer has not been started!"
ErrStopped == "Rasterizer has been stopped!"
ErrCleanedUp == "Rasterizer has been cleaned up! Cannot re-use"
ErrAlreadyRun == "Rasterizer has already been run and cannot be recycled!"
ErrNoLocks == "Unable to allocate locks!"
ErrOpenDocument == "Unable to open document"
ErrClosedDocument == "Tried to process a page from a closed document"
ErrCloneContext == "failed to clone context"
ErrFetchSVG == "failed to fetch the SVG data"

VARIABLES
    hasRun,        \* Rasterizer.hasRun
    quitChan,      \* Rasterizer.quitChan: "chan" or "nil"
    quitClosed,    \* the quit channel has been closed
    RequestChan,   \* Rasterizer.RequestChan: "chan" or "nil"
    reqQueue,      \* buffer of the request channel (callers' request ids)
    reqClosed,     \* the request channel has been closed
    Ctx,           \* Rasterizer.Ctx: "nil" or "live"
    Document,      \* Rasterizer.Document: "nil" or "live"
    locks,         \* Rasterizer.locks: "nil" or "live"
    docPageCount,  \* Rasterizer.docPageCount
    backgroundRenderWg,  \* counter of the sync.WaitGroup
    loopPc,        \* position of the mainEventLoop goroutine
    released,      \* native resources released so far, in order
    runResult,     \* error returned by the last Run call ("nil" = success)
    panicked,      \* "none", or the runtime panic that ended the process
    pc,            \* per caller: position inside generatePage
    req,           \* per caller: the RasterRequest it built
    sendChan,      \* per caller: r.RequestChan as evaluated by the select
    ctxDone,       \* per caller: req.ctx is done (deadline or cancel)
    replyChan,     \* per caller: buffer of its reply channel
    replyClosed,   \* per caller: reply channel closed by the caller
    result,        \* per caller: what generatePage returned
    calledAt,      \* per caller: hasRun and loopPc when it entered generatePage
    sent,          \* per request: the reply sends attempted so far, in order
    cloneCtx,      \* per request: its cloned context "none"/"live"/"dropped"
    loadCalls,     \* per request: load_page calls made for it
    dequeued,      \* per request: the event loop has received it
    ctxLog,        \* per request: native calls made on its cloned context
    bg,            \* per request: position of its backgroundRender
    call,          \* the last evaluation of a scale or rotation function
    scaleFactor,   \* Rasterizer.scaleFactor of the revision with a scale cache
    pageShapes,    \* the pages of the document opened by that revision
    defaultScale,  \* the scale that calculateScaleForDocument first computed
    lastRender,    \* the last request of that revision and the scale it used
    saveFn,        \* the one-shot conversion function that was called
    savePc,        \* position of that call
    payload,       \* len(payload) after io.ReadAll
    saveErr,       \* the error the call returned
    saveCtxDone,   \* the context given to the call is done
    cookieAbort,   \* input.params.cookie.abort
    abortPc,       \* position of the goroutine that waits on ctx.Done()
    abortWrittenAt, \* where the call was when the goroutine wrote the flag
    editPc,        \* per editing call: its position
    editPage,      \* per editing call: params.Page
    mu,            \* PdfDocument.mu of each PdfDocument value: locked or not
    wrappedPages,  \* PdfDocument.wrappedPages, the map every copy shares
    wraps,         \* per page: native wraps of its contents that succeeded
    editCall,      \* per editing call: its arguments, its native calls that
                   \* changed the document, and the error it returned
    selQuit,       \* cleanUpChan revision: r.quitChan as the loop's select read it
    cleanUpChan,   \* cleanUpChan revision: Rasterizer.cleanUpChan
    stopPc,        \* cleanUpChan revision: position of the Stop call
    opPc,          \* per cancellable operation: position of its caller
    opHasCtx,      \* per operation: req.ctx is not nil
    opCtxDone,     \* per operation: req.ctx is done
    opDone,        \* per operation: the done channel has been closed
    watcherPc,     \* per operation: position of its watcher goroutine
    abortWrites,   \* per operation: writes of cookie.abort, with their cause
    opErr,         \* per operation: what runCancellableOperation returned
    syncPc,        \* per request: position of its processOne call
    cb,            \* callback revision, per SaveToPNG call: the caller's and
                   \* the native thread's positions, ctx, and the result
    saveToPNGState,  \* callback revision: the ids in the global map
    saveToPNGMutex   \* callback revision: who holds the global mutex

rasterizer == <<hasRun, quitChan, quitClosed, RequestChan, reqQueue, reqClosed,
                Ctx, Document, locks, docPageCount, backgroundRenderWg,
                loopPc, released>>
lifecycle == <<runResult>>
callers == <<pc, req, sendChan, ctxDone, result, calledAt>>
replies == <<replyChan, replyClosed, sent>>
renders == <<cloneCtx, loadCalls, dequeued, ctxLog, bg>>
actor == <<rasterizer, lifecycle, panicked, callers, replies, renders>>
scaling == <<call, scaleFactor, pageShapes, defaultScale, lastRender>>
saving == <<saveFn, savePc, payload, saveErr, saveCtxDone, cookieAbort,
            abortPc, abortWrittenAt>>
editing == <<editPc, editPage, mu, wrappedPages, wraps, editCall>>
faster == <<selQuit, cleanUpChan, stopPc>>
watching == <<opPc, opHasCtx, opCtxDone, opDone, watcherPc, abortWrites, opErr>>
ordering == <<syncPc>>
callback == <<cb, saveToPNGState, saveToPNGMutex>>
standalone == <<saving, editing, faster, watching, ordering, callback>>
vars == <<actor, scaling, standalone>>
exceptSaving == <<actor, scaling, editing, faster, watching, ordering, callback>>
exceptEditing == <<actor, scaling, saving, faster, watching, ordering, callback>>
exceptFaster == <<scaling, saving, editing, watching, ordering, callback>>
exceptWatching == <<actor, scaling, saving, editing, faster, ordering, callback>>
exceptCallback == <<actor, scaling, saving, editing, faster, watching, ordering>>

NoRequest == [PageNumber |-> 0, RasterType |-> "RasterImage", ctx |-> FALSE]
NoResult == [response |-> "none", err |-> "none"]
NotCalled == [hasRun |-> FALSE, loopPc |-> "none"]

\* A float value, kept as the quotient it was computed from.
Ratio(n, d) == [num |-> n, den |-> d]
NoCall == [fn |-> "none"]
NoRender ==
    [page |-> 0, width |-> 0, scale |-> Ratio(0, 1), used |-> Ratio(0, 1),
     loaded |-> TRUE, replies |-> <<>>, buffer |-> <<>>, closed |-> FALSE,
     nilPageCalls |-> <<>>, cloneCtx |-> "none", bg |-> "none",
     returned |-> "nil", panic |-> "none"]

NoEdit == [op |-> "none", inRange |-> TRUE, native |-> <<>>, err |-> "none"]

\* No one-shot conversion has been called.
SavingInit ==
    /\ saveFn = "none"
    /\ savePc = "idle"
    /\ payload = 0
    /\ saveErr = "none"
    /\ saveCtxDone = FALSE
    /\ cookieAbort = 0
    /\ abortPc = "none"
    /\ abortWrittenAt = "never"

\* An open PdfDocument that nobody edits yet: the value the caller holds
\* (index 0) has an unlocked mutex and an empty map.
EditingInit ==
    /\ editPc = [t \in Editors |-> "idle"]
    /\ editPage = [t \in Editors |-> 0]
    /\ mu = [v \in {0} \cup Editors |-> FALSE]
    /\ wrappedPages = {}
    /\ wraps = [n \in 0..EditPages |-> 0]
    /\ editCall = [t \in Editors |-> NoEdit]

\* NewRasterizer of the cleanUpChan revision: cleanUpChan is made, nobody
\* has called Stop and the loop has read nothing.
FasterInit ==
    /\ selQuit = "none"
    /\ cleanUpChan = "chan"
    /\ stopPc = "idle"

\* No cancellable operation has been started.
WatchingInit ==
    /\ opPc = [o \in Ops |-> "idle"]
    /\ opHasCtx = [o \in Ops |-> FALSE]
    /\ opCtxDone = [o \in Ops |-> FALSE]
    /\ opDone = [o \in Ops |-> FALSE]
    /\ watcherPc = [o \in Ops |-> "none"]
    /\ abortWrites = [o \in Ops |-> <<>>]
    /\ opErr = [o \in Ops |-> "none"]

\* The event loop has called processOne for no request.
OrderingInit == syncPc = [id \in Requests |-> "none"]

NoCallback ==
    [pc |-> "idle", native |-> "none", ctxDone |-> FALSE, chan |-> "none",
     err |-> "none"]
Unlocked == [by |-> "nobody", id |-> 0]

\* The package of the callback revision after init(): an empty map, a free
\* mutex, no call made.
CallbackInit ==
    /\ cb = [i \in Calls |-> NoCallback]
    /\ saveToPNGState = {}
    /\ saveToPNGMutex = Unlocked

StandaloneInit ==
    /\ SavingInit /\ EditingInit /\ FasterInit /\ WatchingInit
    /\ OrderingInit /\ CallbackInit

Init ==
    /\ hasRun = FALSE
    /\ quitChan = "chan"
    /\ quitClosed = FALSE
    /\ RequestChan = "chan"
    /\ reqQueue = <<>>
    /\ reqClosed = FALSE
    /\ Ctx = "nil"
    /\ Document = "nil"
    /\ locks = "nil"
    /\ docPageCount = 0
    /\ backgroundRenderWg = 0
    /\ loopPc = "not_started"
    /\ released = <<>>
    /\ runResult = "none"
    /\ panicked = "none"
    /\ pc = [c \in Requests |-> "idle"]
    /\ req = [c \in Requests |-> NoRequest]
    /\ sendChan = [c \in Requests |-> "none"]
    /\ ctxDone = [c \in Requests |-> FALSE]
    /\ replyChan = [c \in Requests |-> <<>>]
    /\ replyClosed = [c \in Requests |-> FALSE]
    /\ result = [c \in Requests |-> NoResult]
    /\ sent = [c \in Requests |-> <<>>]
    /\ calledAt = [c \in Requests |-> NotCalled]
    /\ cloneCtx = [c \in Requests |-> "none"]
    /\ loadCalls = [c \in Requests |-> 0]
    /\ dequeued = [c \in Requests |-> FALSE]
    /\ ctxLog = [c \in Requests |-> <<>>]
    /\ bg = [c \in Requests |-> "none"]
    /\ call = NoCall
    /\ scaleFactor = Ratio(0, 1)
    /\ pageShapes = <<>>
    /\ defaultScale = [set |-> FALSE, value |-> Ratio(0, 1)]
    /\ lastRender = NoRender
    /\ StandaloneInit

\* ------------------------------------------------------------ Run / Stop

\* A Run without the single-use guard.
AlreadyRunIgnored(h) == FALSE

\* Run, line 219: the single-use guard.
AlreadyRun(h) == h

\* Run, lines 216-255.  locksOK: new_locks returned a lock bridge; opened = 0:
\* cgo_open_document returned NULL, otherwise fz_count_pages of the document.
Run ==
    /\ panicked = "none"
    /\ IF AlreadyRun(hasRun)
       THEN /\ runResult' = ErrAlreadyRun
            /\ UNCHANGED rasterizer
       ELSE \E locksOK \in BOOLEAN, opened \in {0, DocPages} :
            /\ hasRun' = TRUE
            /\ locks' = IF locksOK THEN "live" ELSE "nil"
            /\ Ctx' = IF locksOK THEN "live" ELSE Ctx
            /\ Document' = IF ~locksOK THEN Document
                           ELSE IF opened = 0 THEN "nil" ELSE "live"
            /\ docPageCount' = IF locksOK /\ opened > 0 THEN opened
                               ELSE docPageCount
            /\ loopPc' = IF locksOK /\ opened > 0 THEN "select" ELSE loopPc
            /\ runResult' = IF ~locksOK THEN ErrNoLocks
                            ELSE IF opened = 0 THEN ErrOpenDocument
                            ELSE "nil"
            /\ UNCHANGED <<quitChan, quitClosed, RequestChan, reqQueue,
                           reqClosed, backgroundRenderWg, released>>
    /\ UNCHANGED <<panicked, callers, replies, renders>>
    /\ UNCHANGED <<scaling, standalone>>

\* Stop: closes quitChan unless the field is nil; closing a channel that is
\* already closed is a runtime panic.
Stop ==
    /\ panicked = "none"
    /\ quitChan # "nil"
    /\ IF quitClosed
       THEN panicked' = "close of closed channel" /\ UNCHANGED quitClosed
       ELSE quitClosed' = TRUE /\ UNCHANGED panicked
    /\ UNCHANGED <<hasRun, quitChan, RequestChan, reqQueue, reqClosed, Ctx,
                   Document, locks, docPageCount, backgroundRenderWg, loopPc,
                   released, lifecycle, callers, replies, renders>>
    /\ UNCHANGED <<scaling, standalone>>

\* ---------------------------------------------------------- generatePage

\* A generatePage that does not look at quitChan.
CheckStartedOnly(h, q) == IF ~h THEN ErrNotStarted ELSE "nil"

\* generatePage, lines 136-142: the checks of hasRun and quitChan.
CheckStarted(h, q) ==
    IF ~h THEN ErrNotStarted
    ELSE IF q = "nil" THEN ErrStopped
    ELSE "nil"

\* A sanity check that looks at Ctx only.
CheckCleanedUpCtxOnly(x, d) == IF x = "nil" THEN ErrCleanedUp ELSE "nil"

\* generatePage, lines 145-147: the sanity check of Ctx and Document.
CheckCleanedUp(x, d) == IF x = "nil" \/ d = "nil" THEN ErrCleanedUp ELSE "nil"

Return(c, response, err) ==
    /\ pc' = [pc EXCEPT ![c] = "returned"]
    /\ result' = [result EXCEPT ![c] = [response |-> response, err |-> err]]

\* A caller enters generatePage and reads hasRun and quitChan.
Call(c) ==
    /\ panicked = "none"
    /\ pc[c] = "idle"
    /\ \A d \in 1..(c - 1) : pc[d] # "idle"   \* callers are numbered in the
                                              \* order they call
    /\ LET e == CheckStarted(hasRun, quitChan)
       IN IF e # "nil"
          THEN Return(c, "nil", e)
          ELSE /\ pc' = [pc EXCEPT ![c] = "started"]
               /\ UNCHANGED result
    /\ calledAt' = [calledAt EXCEPT ![c] = [hasRun |-> hasRun,
                                            loopPc |-> loopPc]]
    /\ UNCHANGED <<rasterizer, lifecycle, panicked, req, sendChan, ctxDone,
                   replies, renders>>
    /\ UNCHANGED <<scaling, standalone>>

\* The caller reads Ctx and Document.
SanityCheck(c) ==
    /\ panicked = "none"
    /\ pc[c] = "started"
    /\ LET e == CheckCleanedUp(Ctx, Document)
       IN IF e # "nil"
          THEN Return(c, "nil", e)
          ELSE /\ pc' = [pc EXCEPT ![c] = "checked"]
               /\ UNCHANGED result
    /\ UNCHANGED <<rasterizer, lifecycle, panicked, req, sendChan, ctxDone,
                   calledAt, replies, renders>>
    /\ UNCHANGED <<scaling, standalone>>

\* Lines 152-168: the call builds its request from its arguments and enters
\* the first select, which evaluates r.RequestChan once, on entry.
EnterSelect(c) ==
    /\ panicked = "none"
    /\ pc[c] = "checked"
    /\ \E page \in PageNumbers, kind \in RasterTypes :
         req' = [req EXCEPT ![c] = [PageNumber |-> page, RasterType |-> kind,
                                    ctx |-> TRUE]]
    /\ sendChan' = [sendChan EXCEPT ![c] = RequestChan]
    /\ pc' = [pc EXCEPT ![c] = "sending"]
    /\ UNCHANGED <<rasterizer, lifecycle, panicked, ctxDone, result, calledAt,
                   replies, renders>>
    /\ UNCHANGED <<scaling, standalone>>

\* case r.RequestChan <- &req: the buffer has room.
SendRequest(c) ==
    /\ panicked = "none"
    /\ pc[c] = "sending"
    /\ sendChan[c] = "chan"
    /\ ~reqClosed
    /\ Len(reqQueue) < QueueCap
    /\ reqQueue' = Append(reqQueue, c)
    /\ pc' = [pc EXCEPT ![c] = "waiting"]
    /\ sendChan' = [sendChan EXCEPT ![c] = "none"]
    /\ UNCHANGED <<hasRun, quitChan, quitClosed, RequestChan, reqClosed, Ctx,
                   Document, locks, docPageCount, backgroundRenderWg, loopPc,
                   released, lifecycle, panicked, req, ctxDone, result,
                   calledAt, replies, renders>>
    /\ UNCHANGED <<scaling, standalone>>

\* case r.RequestChan <- &req on a channel that finalCleanUp has closed:
\* the Go runtime panics ("send on closed channel").
SendOnClosed(c) ==
    /\ panicked = "none"
    /\ pc[c] = "sending"
    /\ sendChan[c] = "chan"
    /\ reqClosed
    /\ panicked' = "send on closed channel"
    /\ pc' = [pc EXCEPT ![c] = "panicked"]
    /\ UNCHANGED <<rasterizer, lifecycle, req, sendChan, ctxDone, result,
                   calledAt, replies, renders>>
    /\ UNCHANGED <<scaling, standalone>>

\* case <-ctx.Done() of the first select (line 170).
SendTimeout(c) ==
    /\ panicked = "none"
    /\ pc[c] = "sending"
    /\ ctxDone[c]
    /\ Return(c, "nil", ErrRasterTimeout)
    /\ sendChan' = [sendChan EXCEPT ![c] = "none"]
    /\ UNCHANGED <<rasterizer, lifecycle, panicked, req, ctxDone, calledAt,
                   replies, renders>>
    /\ UNCHANGED <<scaling, standalone>>

\* case response := <-replyChan (lines 177-184).
ReceiveReply(c) ==
    /\ panicked = "none"
    /\ pc[c] = "waiting"
    /\ replyChan[c] # <<>>
    /\ LET response == Head(replyChan[c])
       IN IF response.err # "nil"
          THEN Return(c, "nil", response.err)
          ELSE Return(c, response.kind, "nil")
    /\ replyChan' = [replyChan EXCEPT ![c] = Tail(replyChan[c])]
    /\ replyClosed' = [replyClosed EXCEPT ![c] = TRUE]
    /\ UNCHANGED <<rasterizer, lifecycle, panicked, req, sendChan, ctxDone,
                   calledAt, sent, renders>>
    /\ UNCHANGED <<scaling, standalone>>

\* case <-ctx.Done() of the second select (line 186).
WaitTimeout(c) ==
    /\ panicked = "none"
    /\ pc[c] = "waiting"
    /\ ctxDone[c]
    /\ Return(c, "nil", ErrRasterTimeout)
    /\ UNCHANGED <<rasterizer, lifecycle, panicked, req, sendChan, ctxDone,
                   calledAt, replies, renders>>
    /\ UNCHANGED <<scaling, standalone>>

\* The request's context fires while the call is in progress: the
\* RasterTimeout deadline of line 154 elapses or the caller's context is
\* cancelled.
CtxFires(c) ==
    /\ panicked = "none"
    /\ pc[c] \in {"sending", "waiting"}
    /\ ~ctxDone[c]
    /\ ctxDone' = [ctxDone EXCEPT ![c] = TRUE]
    /\ UNCHANGED <<rasterizer, lifecycle, panicked, pc, req, sendChan, result,
                   calledAt, replies, renders>>
    /\ UNCHANGED <<scaling, standalone>>

\* ------------------------------------------------------------- replies

Reply(kind, err, site) == [kind |-> kind, err |-> err, site |-> site]

\* A send on a reply channel without a buffer and with no receiver ready:
\* it always falls through to default.
SendUnbuffered(buf, r) == buf

\* sendErrorReply and the two success selects: a send that falls through to
\* default when the buffer of the reply channel is full.
SendNonBlocking(buf, r) == IF Len(buf) < ReplyCap THEN Append(buf, r) ELSE buf

RECURSIVE SendAll(_, _)
SendAll(buf, rs) ==
    IF rs = <<>> THEN buf ELSE SendAll(SendNonBlocking(buf, Head(rs)), Tail(rs))

\* A reply send without a default case on a channel without room: it is
\* ready only while the caller is at its receive.
SendReadyWhenRead(id) == pc[id] = "waiting"

\* sendErrorReply and the two success selects have a default case, so the
\* select is ready whatever the state of the reply channel and of its reader.
SendReady(id) == TRUE

\* The reply sends rs of one step are made on the reply channel of request
\* id; a send on a channel its caller has closed panics.
Deliver(id, rs) ==
    /\ rs # <<>> => SendReady(id)
    /\ sent' = [sent EXCEPT ![id] = @ \o rs]
    /\ IF rs # <<>> /\ replyClosed[id]
       THEN /\ panicked' = "send on closed channel"
            /\ UNCHANGED replyChan
       ELSE /\ replyChan' = [replyChan EXCEPT ![id] = SendAll(@, rs)]
            /\ UNCHANGED panicked
    /\ UNCHANGED replyClosed

\* A runCancellableOperation that returns the error without replying.
RunCancellableOperationSilent(hasCtx, ctxErr, cookieErrors) ==
    [err |-> IF hasCtx /\ (ctxErr \/ cookieErrors) THEN ErrBadPage ELSE "nil",
     replies |-> <<>>]

\* runCancellableOperation, lines 385-415: the error it returns and the reply
\* it sends itself, given whether the request has a context, whether that
\* context is done when the native call has returned, and cookie.errors > 0.
RunCancellableOperation(hasCtx, ctxErr, cookieErrors) ==
    IF ~hasCtx THEN [err |-> "nil", replies |-> <<>>]
    ELSE IF ctxErr \/ cookieErrors
    THEN [err |-> ErrBadPage,
          replies |-> <<Reply("error", ErrBadPage,
                              IF ctxErr THEN "cancelled" ELSE "cookie_errors")>>]
    ELSE [err |-> "nil", replies |-> <<>>]

\* ------------------------------------------------------------ processOne

\* The native calls that take the cloned context of a request, in the order
\* in which the code makes them.
\* processOne, lines 437-452: the page cannot be loaded.
LoadFailedOps == <<"fz_clone_context", "load_page", "fz_drop_context">>

\* processOne, lines 437-454.
PageOps == <<"fz_clone_context", "load_page", "fz_bound_page">>

\* The deferred calls of renderToSVG run in the order of their registration.
RenderToSVGDeferredInOrder ==
    <<"fz_drop_page", "fz_drop_context", "fz_drop_buffer", "fz_drop_output">>

\* renderToSVG, lines 513-527: the deferred calls, last registered first.
RenderToSVGDeferred ==
    <<"fz_drop_output", "fz_drop_buffer", "fz_drop_page", "fz_drop_context">>

\* renderToSVG, lines 523-548; failed: runCancellableOperation returned an
\* error.
RenderToSVGOps(failed) ==
    <<"fz_new_buffer", "fz_new_output_with_buffer", "fz_new_svg_device",
      "fz_run_page", "fz_close_device", "fz_drop_device">>
    \o (IF failed THEN <<>> ELSE <<"fz_buffer_storage">>)
    \o RenderToSVGDeferred

\* processOne, lines 472-483: the capture of the display list.
CaptureOps ==
    <<"fz_new_display_list", "fz_new_list_device", "fz_run_page",
      "fz_close_device", "fz_drop_device", "fz_drop_page">>

\* processOne, lines 485-487.
CaptureFailedOps == <<"fz_drop_display_list", "fz_drop_context">>

\* processOne, lines 498-501.
PixmapOps ==
    <<"fz_device_rgb", "fz_new_pixmap_with_bbox_and_data",
      "fz_clear_pixmap_with_value">>

\* The handles of the Rasterizer that a native call of processOne or
\* backgroundRender is given beside the cloned context: fz_clone_context
\* takes r.Ctx (line 439) and load_page takes r.Document (line 446); every
\* other call takes the clone and objects made from it.
RootHandles(op) ==
    IF op = "fz_clone_context" THEN {"Ctx"}
    ELSE IF op = "load_page" THEN {"Document"}
    ELSE {}

\* A backgroundRender that loads the page again from the document before it
\* draws.
BackgroundOpsReloadingPage ==
    <<"load_page", "fz_new_draw_device", "fz_run_display_list",
      "fz_close_device", "fz_drop_device">>

\* backgroundRender, lines 589-599.
BackgroundOps ==
    <<"fz_new_draw_device", "fz_run_display_list", "fz_close_device",
      "fz_drop_device">>

\* A deferred function that drops the cloned context before the display list
\* and the pixmap.
BackgroundDeferredContextFirst ==
    <<"fz_drop_context", "fz_drop_display_list", "fz_drop_pixmap">>

\* backgroundRender, lines 578-582.
BackgroundDeferred ==
    <<"fz_drop_pixmap", "fz_drop_display_list", "fz_drop_context">>

\* processOne, line 424.
DocumentClosed(q, x, d) == q = "nil" \/ x = "nil" \/ d = "nil"

\* A range check that lets page 0 and page n + 1 through.
PageOutOfRangeOffByOne(page, n) == page < 0 \/ page > n + 1

\* processOne, line 429.
PageOutOfRange(page, n) == page < 1 \/ page > n

\* renderToSVG, lines 511-562: the replies of the SVG pipeline.
RenderToSVG(r, ctxErr, cookieErrors, svgEmpty) ==
    LET op == RunCancellableOperation(r.ctx, ctxErr, cookieErrors)
    IN IF op.err # "nil" THEN op.replies
       ELSE IF svgEmpty THEN <<Reply("error", ErrFetchSVG, "svg_fetch")>>
       ELSE <<Reply("RasterSVGReply", "nil", "svg")>>

\* processOne, lines 423-507: the path one request takes through the
\* synchronous phase, as the replies sent, the state in which the cloned
\* context is left, the load_page calls made and whether backgroundRender is
\* spawned.  cloneOK, loadOK, cookieErrors and svgEmpty are the outcomes of
\* the native calls; ctxErr is req.ctx.Err() # nil after fz_run_page.
ProcessOnePath(r, q, x, d, n, ctxErr, cloneOK, loadOK, cookieErrors, svgEmpty) ==
    IF DocumentClosed(q, x, d)
    THEN [replies |-> <<Reply("error", ErrClosedDocument, "closed")>>,
          clone |-> "none", loads |-> 0, spawn |-> FALSE, ops |-> <<>>]
    ELSE IF PageOutOfRange(r.PageNumber, n)
    THEN [replies |-> <<Reply("error", ErrBadPage, "range")>>,
          clone |-> "none", loads |-> 0, spawn |-> FALSE, ops |-> <<>>]
    ELSE IF ~cloneOK
    THEN [replies |-> <<Reply("error", ErrCloneContext, "clone")>>,
          clone |-> "none", loads |-> 0, spawn |-> FALSE, ops |-> <<>>]
    ELSE IF ~loadOK
    THEN [replies |-> <<Reply("error", ErrBadPage, "load")>>,
          clone |-> "dropped", loads |-> 1, spawn |-> FALSE,
          ops |-> LoadFailedOps]
    ELSE IF r.RasterType = "RasterSVG"
    THEN [replies |-> RenderToSVG(r, ctxErr, cookieErrors, svgEmpty),
          clone |-> "dropped", loads |-> 1, spawn |-> FALSE,
          ops |-> PageOps \o RenderToSVGOps(
                     RunCancellableOperation(r.ctx, ctxErr, cookieErrors).err
                     # "nil")]
    ELSE LET op == RunCancellableOperation(r.ctx, ctxErr, cookieErrors)
         IN IF op.err # "nil"
            THEN [replies |-> op.replies,
                  clone |-> "dropped", loads |-> 1, spawn |-> FALSE,
                  ops |-> PageOps \o CaptureOps \o CaptureFailedOps]
            ELSE [replies |-> <<>>,
                  clone |-> "live", loads |-> 1, spawn |-> TRUE,
                  ops |-> PageOps \o CaptureOps \o PixmapOps]

InPhase(rs, phase) ==
    [i \in 1..Len(rs) |->
       [kind |-> rs[i].kind, err |-> rs[i].err, site |-> rs[i].site,
        phase |-> phase]]

\* A processOne that calls backgroundRender without the go statement: the
\* loop is held until the render has replied.
RenderHoldsLoopInline(b) == \E id \in Requests : b[id] = "run"

\* processOne, line 507: backgroundRender is started with a go statement,
\* so a render in flight does not hold the event loop.
RenderHoldsLoop(b) == FALSE

\* processOne, lines 423-507, for request id: one path through it and its
\* effects on the reply channel, the cloned context and the WaitGroup.
processOne(id) ==
    \E path \in {ProcessOnePath(req[id], quitChan, Ctx, Document,
                                docPageCount, ctxDone[id], cloneOK,
                                loadOK, cookieErrors, svgEmpty) :
                   cloneOK \in BOOLEAN, loadOK \in BOOLEAN,
                   cookieErrors \in BOOLEAN, svgEmpty \in BOOLEAN} :
       /\ Deliver(id, InPhase(path.replies, "sync"))
       /\ cloneCtx' = [cloneCtx EXCEPT ![id] = path.clone]
       /\ loadCalls' = [loadCalls EXCEPT ![id] = @ + path.loads]
       /\ dequeued' = [dequeued EXCEPT ![id] = TRUE]
       /\ ctxLog' = [ctxLog EXCEPT ![id] = @ \o path.ops]
       /\ bg' = [bg EXCEPT ![id] = IF path.spawn THEN "run" ELSE @]
       /\ backgroundRenderWg' =
            IF path.spawn THEN backgroundRenderWg + 1
            ELSE backgroundRenderWg

\* mainEventLoop, case req := <-r.RequestChan: the loop takes the oldest
\* request and runs processOne on it.
LoopProcessOne ==
    /\ panicked = "none"
    /\ loopPc = "select"
    /\ reqQueue # <<>>
    /\ ~RenderHoldsLoop(bg)
    /\ processOne(Head(reqQueue))
    /\ reqQueue' = Tail(reqQueue)
    /\ UNCHANGED <<hasRun, quitChan, quitClosed, RequestChan, reqClosed, Ctx,
                   Document, locks, docPageCount, loopPc, released, lifecycle,
                   callers>>
    /\ UNCHANGED <<scaling, standalone>>

\* A quit case without the break: the loop sets quitChan to nil and goes on
\* receiving.
LoopQuitNoBreak ==
    /\ panicked = "none"
    /\ loopPc = "select"
    /\ quitChan = "chan"
    /\ quitClosed
    /\ quitChan' = "nil"
    /\ UNCHANGED <<hasRun, quitClosed, RequestChan, reqQueue, reqClosed, Ctx,
                   Document, locks, docPageCount, backgroundRenderWg, loopPc,
                   released, lifecycle, panicked, callers, replies, renders>>
    /\ UNCHANGED <<scaling, standalone>>

\* mainEventLoop, case <-r.quitChan: the loop leaves for finalCleanUp.
LoopQuit ==
    /\ panicked = "none"
    /\ loopPc = "select"
    /\ quitChan = "chan"
    /\ quitClosed
    /\ quitChan' = "nil"
    /\ loopPc' = "finalCleanUp"
    /\ UNCHANGED <<hasRun, quitClosed, RequestChan, reqQueue, reqClosed, Ctx,
                   Document, locks, docPageCount, backgroundRenderWg, released,
                   lifecycle, panicked, callers, replies, renders>>
    /\ UNCHANGED <<scaling, standalone>>

\* -------------------------------------------------------- backgroundRender

\* A backgroundRender that answers with a bare RasterReply whose error is
\* nil.
BackgroundRepliesBare(r, ctxErr, cookieErrors) ==
    LET op == RunCancellableOperation(r.ctx, ctxErr, cookieErrors)
    IN IF op.err # "nil" THEN op.replies
       ELSE <<Reply("error", "nil", "image")>>

\* backgroundRender, lines 588-618: the draw of the display list and the
\* reply.
BackgroundReplies(r, ctxErr, cookieErrors) ==
    LET op == RunCancellableOperation(r.ctx, ctxErr, cookieErrors)
    IN IF op.err # "nil" THEN op.replies
       ELSE <<Reply("RasterImageReply", "nil", "image")>>

BackgroundRender(id) ==
    /\ panicked = "none"
    /\ bg[id] = "run"
    /\ \E rs \in {BackgroundReplies(req[id], ctxDone[id], cookieErrors) :
                   cookieErrors \in BOOLEAN} :
         Deliver(id, InPhase(rs, "background"))
    /\ bg' = [bg EXCEPT ![id] = "deferred"]
    /\ ctxLog' = [ctxLog EXCEPT ![id] = @ \o BackgroundOps]
    /\ UNCHANGED <<rasterizer, lifecycle, callers, cloneCtx, loadCalls,
                   dequeued>>
    /\ UNCHANGED <<scaling, standalone>>

\* The deferred function of backgroundRender, lines 578-582: the pixmap, the
\* display list and the cloned context are dropped, in this order.
BackgroundDrop(id) ==
    /\ panicked = "none"
    /\ bg[id] = "deferred"
    /\ bg' = [bg EXCEPT ![id] = "wg_done"]
    /\ cloneCtx' = [cloneCtx EXCEPT ![id] = "dropped"]
    /\ ctxLog' = [ctxLog EXCEPT ![id] = @ \o BackgroundDeferred]
    /\ UNCHANGED <<rasterizer, lifecycle, panicked, callers, replies,
                   loadCalls, dequeued>>
    /\ UNCHANGED <<scaling, standalone>>

\* The deferred function of backgroundRender, line 585.
BackgroundDone(id) ==
    /\ panicked = "none"
    /\ bg[id] = "wg_done"
    /\ backgroundRenderWg' = backgroundRenderWg - 1
    /\ bg' = [bg EXCEPT ![id] = "finished"]
    /\ UNCHANGED <<hasRun, quitChan, quitClosed, RequestChan, reqQueue,
                   reqClosed, Ctx, Document, locks, docPageCount, loopPc,
                   released, lifecycle, panicked, callers, replies, cloneCtx,
                   loadCalls, dequeued, ctxLog>>
    /\ UNCHANGED <<scaling, standalone>>

\* ------------------------------------------------------------ finalCleanUp

\* A finalCleanUp that does not wait for the renders.
RenderWgNotWaited(w) == TRUE

\* finalCleanUp, line 289: backgroundRenderWg.Wait() returns.
RenderWgIsZero(w) == w = 0

\* A finalCleanUp that drops the root context before the document.
ReleasesContextFirst(d, x) ==
    (IF x # "nil" THEN <<"context">> ELSE <<>>)
        \o (IF d # "nil" THEN <<"document">> ELSE <<>>)
        \o <<"locks">>

\* finalCleanUp, lines 292-308: the document is dropped, then the root
\* context, each if the field is not nil, then free_locks.
Releases(d, x) ==
    (IF d # "nil" THEN <<"document">> ELSE <<>>)
        \o (IF x # "nil" THEN <<"context">> ELSE <<>>)
        \o <<"locks">>

\* finalCleanUp, lines 287-315: once Wait has returned, the document and the
\* root context are dropped, RequestChan is closed and set to nil, the lock
\* bridge is freed and stopCompleted is closed.
FinalCleanUp ==
    /\ panicked = "none"
    /\ loopPc = "finalCleanUp"
    /\ RenderWgIsZero(backgroundRenderWg)
    /\ Document' = "nil"
    /\ Ctx' = "nil"
    /\ reqClosed' = (reqClosed \/ RequestChan # "nil")
    /\ RequestChan' = "nil"
    /\ locks' = "nil"
    /\ released' = released \o Releases(Document, Ctx)
    /\ loopPc' = "done"
    /\ UNCHANGED <<hasRun, quitChan, quitClosed, reqQueue, docPageCount,
                   backgroundRenderWg, lifecycle, panicked, callers, replies,
                   renders>>
    /\ UNCHANGED <<scaling, standalone>>

\* ------------------------------------------------------------ specification

CallerStep(c) ==
    \/ SanityCheck(c) \/ EnterSelect(c) \/ SendRequest(c) \/ SendTimeout(c)
    \/ ReceiveReply(c) \/ WaitTimeout(c)

LoopStep == LoopProcessOne \/ LoopQuit \/ FinalCleanUp

RenderStep(id) == BackgroundRender(id) \/ BackgroundDrop(id) \/ BackgroundDone(id)

Next ==
    \/ Run
    \/ Stop
    \/ \E c \in Callers : Call(c)
    \/ \E c \in Callers : SanityCheck(c)
    \/ \E c \in Callers : EnterSelect(c)
    \/ \E c \in Callers : SendRequest(c)
    \/ \E c \in Callers : SendOnClosed(c)
    \/ \E c \in Callers : SendTimeout(c)
    \/ \E c \in Callers : ReceiveReply(c)
    \/ \E c \in Callers : WaitTimeout(c)
    \/ \E c \in Callers : CtxFires(c)
    \/ LoopProcessOne
    \/ LoopQuit
    \/ FinalCleanUp
    \/ \E id \in Callers : BackgroundRender(id)
    \/ \E id \in Callers : BackgroundDrop(id)
    \/ \E id \in Callers : BackgroundDone(id)

Spec == Init /\ [][Next]_vars

\* The Go scheduler runs every goroutine that can take a step, and the
\* deadline of context.WithTimeout (line 154) always elapses.  Run, Stop and
\* Call are made by the user of the package and are not forced.
Fairness ==
    /\ WF_vars(LoopStep)
    /\ \A c \in Callers : WF_vars(CallerStep(c))
    /\ \A c \in Callers : WF_vars(CtxFires(c))
    /\ \A id \in Callers : WF_vars(RenderStep(id))

FairSpec == Spec /\ Fairness

\* ------------------------------------------------- a Rasterizer that stays up

\* The Rasterizer after NewRasterizer and a Run that opened the document:
\* the event loop is in its select and no call has been made yet.
ServeInit ==
    /\ hasRun = TRUE
    /\ quitChan = "chan"
    /\ quitClosed = FALSE
    /\ RequestChan = "chan"
    /\ reqQueue = <<>>
    /\ reqClosed = FALSE
    /\ Ctx = "live"
    /\ Document = "live"
    /\ locks = "live"
    /\ docPageCount = DocPages
    /\ backgroundRenderWg = 0
    /\ loopPc = "select"
    /\ released = <<>>
    /\ runResult = "nil"
    /\ panicked = "none"
    /\ pc = [c \in Requests |-> "idle"]
    /\ req = [c \in Requests |-> NoRequest]
    /\ sendChan = [c \in Requests |-> "none"]
    /\ ctxDone = [c \in Requests |-> FALSE]
    /\ replyChan = [c \in Requests |-> <<>>]
    /\ replyClosed = [c \in Requests |-> FALSE]
    /\ result = [c \in Requests |-> NoResult]
    /\ sent = [c \in Requests |-> <<>>]
    /\ calledAt = [c \in Requests |-> NotCalled]
    /\ cloneCtx = [c \in Requests |-> "none"]
    /\ loadCalls = [c \in Requests |-> 0]
    /\ dequeued = [c \in Requests |-> FALSE]
    /\ ctxLog = [c \in Requests |-> <<>>]
    /\ bg = [c \in Requests |-> "none"]
    /\ call = NoCall
    /\ scaleFactor = Ratio(0, 1)
    /\ pageShapes = <<>>
    /\ defaultScale = [set |-> FALSE, value |-> Ratio(0, 1)]
    /\ lastRender = NoRender
    /\ StandaloneInit

\* Concurrent generatePage calls on a Rasterizer that nobody stops and whose
\* requests' contexts do not fire: the steps of the callers, of the event
\* loop and of the background renders.
ServeCallerStep(c) ==
    \/ SanityCheck(c) \/ EnterSelect(c) \/ SendRequest(c) \/ ReceiveReply(c)

ServeNext ==
    \/ \E c \in Concurrent : Call(c)
    \/ \E c \in Concurrent : SanityCheck(c)
    \/ \E c \in Concurrent : EnterSelect(c)
    \/ \E c \in Concurrent : SendRequest(c)
    \/ \E c \in Concurrent : ReceiveReply(c)
    \/ LoopProcessOne
    \/ \E id \in Concurrent : BackgroundRender(id)
    \/ \E id \in Concurrent : BackgroundDrop(id)
    \/ \E id \in Concurrent : BackgroundDone(id)

ServeFairness ==
    /\ WF_vars(LoopProcessOne)
    /\ \A c \in Concurrent : WF_vars(ServeCallerStep(c))
    /\ \A id \in Concurrent : WF_vars(RenderStep(id))

ServeSpec == ServeInit /\ [][ServeNext]_vars /\ ServeFairness

\* ------------------------------------------------------ scale and rotation

LandscapeScale == Ratio(1, 1)
PortraitScale == Ratio(3, 2)

Widths == 0..MaxWidth
Scales == {Ratio(k, 2) : k \in 0..MaxScaleHalves}
Boxes == [x0 : 0..MaxCoord, y0 : 0..MaxCoord, x1 : 0..MaxCoord, y1 : 0..MaxCoord]
Rotations == {0, 90, 180, 270, 360, -90, 45}   \* /Rotate entries of a page
NilRequest == [isNil |-> TRUE, Width |-> 0, Scale |-> Ratio(0, 1)]
Request(width, scale) == [isNil |-> FALSE, Width |-> width, Scale |-> scale]

\* A landscape test that takes a square page for a landscape one.
LandscapeOrSquare(bounds) ==
    (bounds.y1 - bounds.y0) <= (bounds.x1 - bounds.x0)

\* scalePage, line 359.
Landscape(bounds) == (bounds.y1 - bounds.y0) < (bounds.x1 - bounds.x0)

\* scalePage, lines 344-371 (the same text in the scale-cache revision).
scalePage(rotation, bounds, r) ==
    IF ~r.isNil /\ r.Width # 0 THEN Ratio(r.Width, bounds.x1)
    ELSE IF ~r.isNil /\ r.Scale.num # 0 THEN r.Scale
    ELSE IF Landscape(bounds)
    THEN IF rotation # 0 /\ rotation # 180 THEN PortraitScale
         ELSE LandscapeScale
    ELSE PortraitScale

\* get_rotation, part_009 lines 192-199: pdf_to_int of the inherited /Rotate
\* entry of the page, as it is written in the file.
get_rotation(raw) == raw

\* processOne, line 457: the scale of one request.
EvalScalePage ==
    /\ call = NoCall
    /\ \E width \in Widths \cup {-1}, scale \in Scales, bounds \in Boxes,
          raw \in Rotations :
         call' = [fn |-> "scalePage", width |-> width, scale |-> scale,
                  bounds |-> bounds, rotation |-> raw,
                  result |-> scalePage(get_rotation(raw), bounds,
                                       Request(width, scale))]
    /\ UNCHANGED <<standalone, actor, scaleFactor, pageShapes, defaultScale, lastRender>>

\* calculate_dimensions, main.c lines 708-724: the scale factor.
calculate_dimensions(rotation, bounds, width, scale) ==
    IF width # 0 THEN Ratio(width, bounds.x1)
    ELSE IF scale.num # 0 THEN scale
    ELSE IF (bounds.x1 - bounds.x0) > (bounds.y1 - bounds.y0)
    THEN IF rotation \in {0, 180} THEN Ratio(1, 1) ELSE Ratio(3, 2)
    ELSE Ratio(3, 2)

\* SaveToPNG hands its width and scale arguments unchanged to save_to_png,
\* which resolves the scale factor in calculate_dimensions.
EvalSaveToPNG ==
    /\ call = NoCall
    /\ \E width \in Widths, scale \in Scales, bounds \in Boxes,
          rotation \in Rotations :
         call' = [fn |-> "SaveToPNG", width |-> width, scale |-> scale,
                  bounds |-> bounds, rotation |-> rotation,
                  result |-> calculate_dimensions(rotation, bounds, width,
                                                  scale)]
    /\ UNCHANGED <<standalone, actor, scaleFactor, pageShapes, defaultScale, lastRender>>

MinInt == -(2 ^ (IntBits - 1))
MaxInt == 2 ^ (IntBits - 1) - 1

\* The % of C: the remainder has the sign of the dividend.
Rem(a, b) == IF a >= 0 THEN a % b ELSE -((-a) % b)

\* -x in C: negating the smallest int overflows, which is undefined; the
\* build may leave any int.
Negations(x) == IF x = MinInt THEN MinInt..MaxInt ELSE {-x}

\* page_get_rotation, lines 191-198: the steps after the negation.
NormalizeRotation(rotation) ==
    LET a == IF rotation >= 360 THEN Rem(rotation, 360) ELSE rotation
        b == 90 * ((a + 45) \div 90)
    IN IF b >= 360 THEN 0 ELSE b

\* page_get_rotation, lines 185-199: the values it can return for the raw
\* rotation of the page dictionary.
page_get_rotation(raw) ==
    IF raw < 0
    THEN {NormalizeRotation(360 - Rem(n, 360)) : n \in Negations(raw)}
    ELSE {NormalizeRotation(raw)}

EvalPageGetRotation ==
    /\ call = NoCall
    /\ \E raw \in MinInt..MaxInt : \E rotation \in page_get_rotation(raw) :
         call' = [fn |-> "page_get_rotation", raw |-> raw,
                  result |-> rotation]
    /\ UNCHANGED <<standalone, actor, scaleFactor, pageShapes, defaultScale, lastRender>>

\* One evaluation of one of the functions, on any input.
EvalNext == EvalScalePage \/ EvalSaveToPNG \/ EvalPageGetRotation

EvalSpec == Init /\ [][EvalNext]_vars

\* ------------------------------------------ the revision with a scale cache

\* The pages a document may hold: portrait, landscape, landscape that is a
\* rotated portrait, and a page that load_page cannot load.
Shapes ==
    {[loads |-> TRUE, rotation |-> 0, bounds |-> [x0 |-> 0, y0 |-> 0, x1 |-> 2, y1 |-> 3]],
     [loads |-> TRUE, rotation |-> 0, bounds |-> [x0 |-> 0, y0 |-> 0, x1 |-> 3, y1 |-> 2]],
     [loads |-> TRUE, rotation |-> 90, bounds |-> [x0 |-> 0, y0 |-> 0, x1 |-> 3, y1 |-> 2]],
     [loads |-> FALSE, rotation |-> 0, bounds |-> [x0 |-> 0, y0 |-> 0, x1 |-> 0, y1 |-> 0]]}

\* Run of that revision opens a document.
CacheRun ==
    /\ pageShapes = <<>>
    /\ \E shapes \in [1..CachePages -> Shapes] : pageShapes' = shapes
    /\ UNCHANGED <<standalone, actor, call, scaleFactor, defaultScale, lastRender>>

\* calculateScaleForDocument, part_005 lines 299-317: the loop from page i.
RECURSIVE calculateScaleFrom(_, _, _)
calculateScaleFrom(shapes, i, factor) ==
    IF i > Len(shapes) THEN factor
    ELSE IF ~shapes[i].loads THEN calculateScaleFrom(shapes, i + 1, factor)
    ELSE LET f == scalePage(shapes[i].rotation, shapes[i].bounds, NilRequest)
         IN IF f = LandscapeScale THEN f
            ELSE calculateScaleFrom(shapes, i + 1, f)

calculateScaleForDocument(shapes, factor) == calculateScaleFrom(shapes, 1, factor)

\* What processOne of that revision can run into once it goes on with a page
\* that load_page did not return (lines 371-414): a native call that takes
\* the nil page brings the process down ("crash"), or the calls return and
\* the page has no area, so that &bytes[0] of line 405 indexes an empty slice
\* ("empty"), or they return some area and the render is spawned ("spawn").
MissingPageOutcomes == {"crash", "empty", "spawn"}

\* processOne, lines 373-399: the native calls that are given the page.
PageCalls == <<"fz_bound_page", "fz_run_page", "fz_drop_page">>

\* processOne of that revision, part_005 lines 352-414, for a request of a
\* page in the range of the document, made once the call before it is over:
\* the reply of line 370 when load_page returns no page (the buffer of the
\* reply channel is empty, the send goes through), no return after it, the
\* scale factor it leaves in the Rasterizer and renders with, and the
\* backgroundRender it spawns.
CacheProcessOne ==
    /\ pageShapes # <<>>
    /\ lastRender.returned # "none"
    /\ lastRender.bg # "run"
    /\ lastRender.panic = "none"
    /\ \E page \in 1..Len(pageShapes), width \in Widths, scale \in Scales,
          outcome \in MissingPageOutcomes :
         LET loaded == pageShapes[page].loads
             default == scaleFactor.num = 0 /\ width = 0 /\ scale.num = 0
             factor == IF default
                       THEN calculateScaleForDocument(pageShapes, scaleFactor)
                       ELSE scalePage(pageShapes[page].rotation,
                                      pageShapes[page].bounds,
                                      Request(width, scale))
             scaled == loaded \/ outcome # "crash"
             sent1 == IF loaded THEN <<>> ELSE <<ErrBadPage>>
         IN /\ loaded => outcome = "spawn"
            /\ scaleFactor' = IF scaled THEN factor ELSE scaleFactor
            /\ defaultScale' = IF scaled /\ default /\ ~defaultScale.set
                               THEN [set |-> TRUE, value |-> factor]
                               ELSE defaultScale
            /\ lastRender' =
                 [page |-> page, width |-> width, scale |-> scale,
                  used |-> IF scaled THEN factor ELSE scaleFactor,
                  loaded |-> loaded, replies |-> sent1, buffer |-> sent1,
                  closed |-> FALSE,
                  nilPageCalls |-> IF loaded THEN <<>>
                                   ELSE IF outcome = "crash"
                                   THEN <<Head(PageCalls)>>
                                   ELSE PageCalls,
                  cloneCtx |-> "live",
                  bg |-> IF outcome = "spawn" THEN "run" ELSE "none",
                  returned |-> "none",
                  panic |-> IF outcome = "crash" THEN "SIGSEGV"
                            ELSE IF outcome = "empty"
                            THEN "index out of range [0] with length 0"
                            ELSE "none"]
    /\ UNCHANGED <<standalone, actor, call, pageShapes>>

\* backgroundRender of that revision, part_005 lines 418-461: the draw, the
\* reply sent by a select with a default case (a send on a channel the
\* caller has closed panics all the same) and the deferred drops.
CacheBackgroundRender ==
    /\ lastRender.bg = "run"
    /\ lastRender.panic = "none"
    /\ lastRender' =
         IF lastRender.closed
         THEN [lastRender EXCEPT !.replies = Append(@, "image"),
                                 !.panic = "send on closed channel"]
         ELSE [lastRender EXCEPT !.replies = Append(@, "image"),
                                 !.buffer = SendNonBlocking(@, "image"),
                                 !.bg = "done",
                                 !.cloneCtx = "dropped"]
    /\ UNCHANGED <<standalone, actor, call, scaleFactor, pageShapes,
                   defaultScale>>

\* GeneratePage of that revision, part_005 lines 126-130: the caller takes
\* the reply and closes the reply channel.
CacheReceiveReply ==
    /\ lastRender.returned = "none"
    /\ lastRender.panic = "none"
    /\ lastRender.buffer # <<>>
    /\ lastRender' = [lastRender EXCEPT !.returned = Head(lastRender.buffer),
                                        !.buffer = Tail(@),
                                        !.closed = TRUE]
    /\ UNCHANGED <<standalone, actor, call, scaleFactor, pageShapes,
                   defaultScale>>

\* GeneratePage of that revision, lines 131-132: time.After(RasterTimeout)
\* fires first.
CacheTimeout ==
    /\ lastRender.returned = "none"
    /\ lastRender.panic = "none"
    /\ lastRender' = [lastRender EXCEPT !.returned = ErrRasterTimeout]
    /\ UNCHANGED <<standalone, actor, call, scaleFactor, pageShapes,
                   defaultScale>>

CacheNext ==
    \/ CacheRun
    \/ CacheProcessOne
    \/ CacheBackgroundRender
    \/ CacheReceiveReply
    \/ CacheTimeout

CacheSpec == Init /\ [][CacheNext]_vars

\* ================================================================ claims

\* The processing of request id is over: the event loop received it and
\* neither processOne nor a backgroundRender has a reply left to send.
Processed(id) == dequeued[id] /\ bg[id] # "run"

\* C1: every request the event loop dequeued gets exactly one reply attempt
\* across processOne, renderToSVG and backgroundRender: never a second one,
\* and exactly one once its processing is over; a request that was not
\* dequeued gets none.
C1_ExactlyOneReplyAttempt ==
    \A id \in Callers :
        /\ Len(sent[id]) <= 1
        /\ Processed(id) => Len(sent[id]) = 1
        /\ ~dequeued[id] => Len(sent[id]) = 0

\* C1 witness: a bitmap request went through processOne and a cancelled
\* backgroundRender, which made the one reply attempt.
C1_Witness ==
    \E id \in Callers :
        /\ bg[id] = "finished"
        /\ Len(sent[id]) = 1
        /\ sent[id][1].phase = "background"
        /\ sent[id][1].site = "cancelled"

\* C2: once finalCleanUp has dropped the document or the root context, no
\* backgroundRender is in flight: every render that processOne spawned has
\* dropped its cloned context and signalled the WaitGroup.
C2_DropOnlyAfterRenders ==
    (\E i \in 1..Len(released) : released[i] \in {"document", "context"})
    => /\ backgroundRenderWg = 0
       /\ \A id \in Callers : /\ bg[id] \in {"none", "finished"}
                              /\ cloneCtx[id] # "live"

\* C2 witness: Stop was signalled, a spawned render has finished and the
\* document and the root context have been dropped.
C2_Witness ==
    /\ quitClosed
    /\ released = <<"document", "context", "locks">>
    /\ \E id \in Callers : bg[id] = "finished" /\ cloneCtx[id] = "dropped"

\* The request of caller c is, or was, on RequestChan.
Enqueued(c) == dequeued[c] \/ \E i \in 1..Len(reqQueue) : reqQueue[i] = c

\* C3: a generatePage call made once finalCleanUp has finished has returned
\* the 'has been stopped' error in its first step: it enqueued nothing, got
\* no reply, waited for no timeout and did not panic.
C3_StoppedFailsFast ==
    \A c \in Callers :
        calledAt[c].loopPc = "done"
        => /\ pc[c] = "returned"
           /\ result[c] = [response |-> "nil", err |-> ErrStopped]
           /\ ~Enqueued(c)
           /\ sent[c] = <<>>
           /\ ~ctxDone[c]

\* C3 witness: a call made after finalCleanUp has finished has returned.
C3_Witness ==
    \E c \in Callers :
        /\ calledAt[c].loopPc = "done"
        /\ pc[c] = "returned"
        /\ result[c].err = ErrStopped

\* The event loop has left its select for good, and the call of c has only
\* its ctx.Done() case left: its request sits on RequestChan, or its send is
\* on the nil channel.
WaitsForTimeout(c) ==
    /\ loopPc \in {"finalCleanUp", "done"}
    /\ \/ pc[c] = "waiting" /\ ~dequeued[c]
       \/ pc[c] = "sending" /\ sendChan[c] = "nil"

\* C4: a generatePage call that runs while Stop is in progress is never
\* left waiting for its timeout and never sends on the closed request
\* channel.
C4_ConcurrentStopFailsFast ==
    \A c \in Callers :
        /\ ~WaitsForTimeout(c)
        /\ pc[c] # "panicked"

\* C5: every generatePage call in progress eventually returns.  (A process
\* ended by the panic of a second Stop is left aside.)
C5_EveryCallReturns ==
    \A c \in Callers :
        (pc[c] \in {"started", "checked", "sending", "waiting"})
        ~> (pc[c] = "returned" \/ panicked = "close of closed channel")

\* C6: a dequeued request whose page number is below 1 or above the page
\* count gets the ErrBadPage reply of the range check and nothing else: no
\* context was cloned, no page loaded, no render spawned; a request for a
\* page in 1..N never gets the reply of the range check.
C6_BadPageBoundary ==
    \A id \in Callers :
        dequeued[id] =>
           IF req[id].PageNumber < 1 \/ req[id].PageNumber > docPageCount
           THEN /\ sent[id] = <<[kind |-> "error", err |-> ErrBadPage,
                                 site |-> "range", phase |-> "sync"]>>
                /\ cloneCtx[id] = "none"
                /\ loadCalls[id] = 0
                /\ bg[id] = "none"
           ELSE \A i \in 1..Len(sent[id]) : sent[id][i].site # "range"

\* C6 witness: a request for page N + 1 came back to its caller as
\* ErrBadPage, and so did a request for page 0.
C6_Witness ==
    \E id \in Callers :
        /\ req[id].ctx
        /\ req[id].PageNumber = 0 \/ req[id].PageNumber = docPageCount + 1
        /\ pc[id] = "returned"
        /\ result[id] = [response |-> "nil", err |-> ErrBadPage]

\* C7: ErrBadPage is only ever sent by the synchronous phase, and only for a
\* page number outside [1, pageCount].
C7_BadPageOnlyFromRangeCheck ==
    \A id \in Callers : \A i \in 1..Len(sent[id]) :
        sent[id][i].err = ErrBadPage
        => /\ sent[id][i].phase = "sync"
           /\ req[id].PageNumber < 1 \/ req[id].PageNumber > docPageCount

\* C8: a call whose context fired before it consumed a reply, or that
\* consumed the reply which the cancellation itself produced, returns
\* ErrRasterTimeout.
C8_CancelledIsTimeout ==
    \A c \in Callers :
        ( /\ pc[c] = "returned"
          /\ ctxDone[c]
          /\ replyClosed[c] => sent[c][1].site = "cancelled" )
        => result[c].err = ErrRasterTimeout

\* C9: a Run on a Rasterizer that has already run returns the 'already been
\* run' error and changes no field of the Rasterizer.
C9_SecondRunChangesNothing ==
    [][(Run /\ hasRun) => (runResult' = ErrAlreadyRun /\ UNCHANGED rasterizer)]_vars

\* C9 witness: Run was refused on a Rasterizer whose first Run had succeeded
\* and whose Stop has completed.
C9_Witness ==
    /\ runResult = ErrAlreadyRun
    /\ loopPc = "done"

\* C10: a generatePage made while no Run has succeeded enqueues nothing and
\* returns 'has not been started' if Run was never called, 'has been cleaned
\* up' if Run had failed; no event loop exists then.
C10_NotRunningFailsFast ==
    \A c \in Callers :
        (pc[c] # "idle" /\ calledAt[c].loopPc = "not_started")
        => /\ ~Enqueued(c)
           /\ sent[c] = <<>>
           /\ IF calledAt[c].hasRun
              THEN /\ loopPc = "not_started"
                   /\ pc[c] \in {"started", "returned"}
                   /\ pc[c] = "returned"
                      => result[c] = [response |-> "nil", err |-> ErrCleanedUp]
              ELSE /\ pc[c] = "returned"
                   /\ result[c] = [response |-> "nil", err |-> ErrNotStarted]

\* C10 witness: Run failed to open the document and a later call has
\* returned 'has been cleaned up'.
C10_Witness ==
    /\ runResult = ErrOpenDocument
    /\ \E c \in Callers :
         /\ calledAt[c].hasRun
         /\ pc[c] = "returned"
         /\ result[c].err = ErrCleanedUp

\* Run got its lock bridge and root context and then failed to open the
\* document: it returned before starting the event loop.
OpenFailed == hasRun /\ loopPc = "not_started" /\ locks = "live"

\* C11: when Run has failed to open the document and Stop has been called,
\* the lock bridge and the root context that Run created are eventually
\* released.  (A process ended by a panic is left aside.)
C11_FailedOpenReleased ==
    (OpenFailed /\ quitClosed)
    ~> ((locks = "nil" /\ Ctx = "nil") \/ panicked # "none")

\* C12: Stop calls never end in the panic of closing the quit channel twice,
\* and no native resource is released twice.
C12_StopTwiceSafe ==
    /\ panicked # "close of closed channel"
    /\ \A i, j \in 1..Len(released) : released[i] = released[j] => i = j

\* Request id is a bitmap request for a page of the document.
ValidBitmap(id) ==
    /\ req[id].RasterType = "RasterImage"
    /\ req[id].PageNumber >= 1
    /\ req[id].PageNumber <= docPageCount

\* C13: a bitmap request for a valid page that sits on RequestChan of a
\* running Rasterizer before Stop is called is eventually processed and
\* replied to (with its image, unless a native call fails or its context is
\* cancelled), and a Stop that has been signalled to the event loop
\* completes.  (A process ended by a panic is left aside.)
C13_QueuedBeforeStopAnswered ==
    /\ \A id \in Callers :
         ( /\ \E i \in 1..Len(reqQueue) : reqQueue[i] = id
           /\ ValidBitmap(id)
           /\ loopPc = "select"
           /\ ~quitClosed )
         ~> (sent[id] # <<>> \/ panicked # "none")
    /\ (quitClosed /\ loopPc = "select")
       ~> (loopPc = "done" \/ panicked # "none")

\* The artifact that a successful render of request id replies with.
Artifact(id) ==
    IF req[id].RasterType = "RasterSVG" THEN "RasterSVGReply"
    ELSE "RasterImageReply"

\* Request id asks for a page of the document.
ValidPage(id) == req[id].PageNumber >= 1 /\ req[id].PageNumber <= docPageCount

ContextDrops(id) ==
    {i \in 1..Len(ctxLog[id]) : ctxLog[id][i] = "fz_drop_context"}

\* Every exit path of the operation that cloned the context of request id
\* has been left.
PathsLeft(id) == dequeued[id] /\ bg[id] \in {"none", "wg_done", "finished"}

\* C15: the context that processOne cloned for a request is dropped at most
\* once, no native call takes it after the drop, and once processOne,
\* renderToSVG and backgroundRender have been left on whatever path it has
\* been dropped exactly once; a request for which no context was cloned has
\* no native call made on one.
C15_CloneDroppedOnce ==
    \A id \in Requests :
        /\ Cardinality(ContextDrops(id)) <= 1
        /\ \A i \in ContextDrops(id) : i = Len(ctxLog[id])
        /\ ctxLog[id] # <<>> => ctxLog[id][1] = "fz_clone_context"
        /\ \A i \in 2..Len(ctxLog[id]) : ctxLog[id][i] # "fz_clone_context"
        /\ (PathsLeft(id) /\ ctxLog[id] # <<>>)
           => Cardinality(ContextDrops(id)) = 1
        /\ (cloneCtx[id] = "none") = (ctxLog[id] = <<>>)
        /\ (cloneCtx[id] = "dropped") = (ContextDrops(id) # {})

\* C15 witness: a request was cancelled during the capture of its display
\* list; processOne dropped the list and then the cloned context.
C15_Witness ==
    \E id \in Requests :
        /\ Len(sent[id]) = 1
        /\ sent[id][1].site = "cancelled"
        /\ sent[id][1].phase = "sync"
        /\ req[id].RasterType = "RasterImage"
        /\ ContextDrops(id) = {Len(ctxLog[id])}
        /\ ctxLog[id][Len(ctxLog[id]) - 1] = "fz_drop_display_list"

\* The scale that the resolver of the description gives to an evaluation c.
ReferenceScale(c) ==
    IF c.width # 0 THEN Ratio(c.width, c.bounds.x1)
    ELSE IF c.scale.num # 0 THEN c.scale
    ELSE IF /\ (c.bounds.x1 - c.bounds.x0) > (c.bounds.y1 - c.bounds.y0)
            /\ c.rotation \in {0, 180}
    THEN LandscapeScale
    ELSE PortraitScale

\* C16: scalePage returns width / bounds.x1 when the width is not zero,
\* else the requested scale when it is not zero, else LandscapeScale exactly
\* for a box strictly wider than tall with rotation 0 or 180, and
\* PortraitScale otherwise.
C16_ScalePageIsReference ==
    call.fn = "scalePage" => call.result = ReferenceScale(call)

\* C16 witness: scalePage gave PortraitScale to a square page without
\* rotation, and no width or scale was requested.
C16_Witness ==
    /\ call.fn = "scalePage"
    /\ call.width = 0
    /\ call.scale.num = 0
    /\ call.rotation = 0
    /\ call.bounds.x1 - call.bounds.x0 = call.bounds.y1 - call.bounds.y0
    /\ call.bounds.x1 > call.bounds.x0
    /\ call.result = PortraitScale

\* C17: in the revision with a scale cache, once calculateScaleForDocument
\* has computed the default scale, every request without width and scale is
\* rendered with that scale.
C17_DefaultScaleIsCached ==
    (defaultScale.set /\ lastRender.width = 0 /\ lastRender.scale.num = 0)
    => lastRender.used = defaultScale.value

\* C18: when SaveToPNG is given both a width and a scale, the scale factor
\* is the scale.
C18_ScaleOverWidth ==
    (call.fn = "SaveToPNG" /\ call.width # 0 /\ call.scale.num # 0)
    => call.result = call.scale

\* C19: page_get_rotation returns one of 0, 90, 180, 270, and that value is a
\* multiple of 90 nearest (around the circle) to the raw rotation reduced
\* modulo 360.
C19_RotationNormalized ==
    call.fn = "page_get_rotation"
    => /\ call.result \in {0, 90, 180, 270}
       /\ LET d == (call.result - (call.raw % 360)) % 360
          IN d <= 45 \/ d >= 315

\* C20: a request that was handed to a backgroundRender gets the image of
\* that render whatever happens to the context of its caller; only an error
\* that MuPDF reports for the page content stops it.
C20_RenderRunsToCompletion ==
    \A id \in Requests :
        bg[id] \in {"deferred", "wg_done", "finished"}
        => /\ Len(sent[id]) = 1
           /\ sent[id][1].site \in {"image", "cookie_errors"}

\* The request of id sits in the buffer of RequestChan.
Queued(id) == \E i \in 1..Len(reqQueue) : reqQueue[i] = id

\* Nothing has been done for request id: it was not received, no reply was
\* sent for it and no native call was made for it.
Untouched(id) ==
    /\ ~dequeued[id]
    /\ sent[id] = <<>>
    /\ ctxLog[id] = <<>>
    /\ loadCalls[id] = 0
    /\ cloneCtx[id] = "none"
    /\ bg[id] = "none"

\* C21: once the event loop has taken the quit case (it alone sets quitChan
\* to nil), a request that is still in RequestChan stays there for good: it
\* is never received, gets no reply (so no image and no SVG) and no native
\* call is made for it.
C21_StrandedNeverProcessed ==
    /\ [](quitChan = "nil" => \A id \in Requests : Queued(id) => Untouched(id))
    /\ [][quitChan = "nil"
          => \A id \in Requests : Queued(id) => Queued(id)']_vars

\* C21 witness: Stop has completed with a request left in RequestChan, and
\* its caller has given up waiting.
C21_Witness ==
    \E id \in Requests :
        /\ loopPc = "done"
        /\ Queued(id)
        /\ pc[id] = "returned"
        /\ result[id].err = ErrRasterTimeout

\* ------------------------------------------- the one-shot conversion calls

Readers ==
    {[kind |-> "nil", len |-> 0], [kind |-> "fails", len |-> 0]}
        \cup {[kind |-> "bytes", len |-> n] : n \in 0..MaxPayload}
Outputs == {"nil", "writer", "failing_writer"}

\* The calls that start a goroutine waiting on the context.
Cancellable == {"SaveToPNG", "SaveToHTML", "PdfHandler.SaveToPNG"}

\* The statements of a call up to its native call.  usesReader, usesOutput:
\* the function takes a payload reader, an output writer.  The reader is
\* read in full and &payload[0] is evaluated, which panics on an empty slice;
\* the goroutine that waits on the context is started just before the
\* native call.
SaveEntry(fn, usesReader, usesOutput, reader, output) ==
    /\ savePc = "idle"
    /\ saveFn' = fn
    /\ UNCHANGED <<saveCtxDone, cookieAbort, abortWrittenAt>>
    /\ IF usesReader /\ reader.kind = "nil"
         THEN /\ savePc' = "returned"
              /\ saveErr' = "payload can't be nil"
              /\ UNCHANGED <<payload, abortPc>>
       ELSE IF usesOutput /\ output = "nil"
         THEN /\ savePc' = "returned"
              /\ saveErr' = "output can't be nil"
              /\ UNCHANGED <<payload, abortPc>>
       ELSE IF usesReader /\ reader.kind = "fails"
         THEN /\ savePc' = "returned"
              /\ saveErr' = "fail to read the payload"
              /\ UNCHANGED <<payload, abortPc>>
       ELSE IF usesReader /\ reader.len = 0
         THEN /\ savePc' = "panicked"
              /\ saveErr' = "index out of range [0] with length 0"
              /\ UNCHANGED <<payload, abortPc>>
       ELSE /\ savePc' = "native"
            /\ payload' = IF usesReader THEN reader.len ELSE 0
            /\ abortPc' = IF fn \in Cancellable THEN "waiting" ELSE "none"
            /\ UNCHANGED saveErr
    /\ UNCHANGED exceptSaving

\* SaveToPNG, lines 35-71.
SaveToPNG ==
    \E reader \in Readers, output \in Outputs :
        SaveEntry("SaveToPNG", TRUE, TRUE, reader, output)

\* SaveToHTML, lines 84-120.
SaveToHTML ==
    \E reader \in Readers, output \in Outputs :
        SaveEntry("SaveToHTML", TRUE, TRUE, reader, output)

\* PageCount, lines 134-150.
PageCount ==
    \E reader \in Readers :
        SaveEntry("PageCount", TRUE, FALSE, reader, "nil")

\* PdfHandler.SaveToPNG, lines 660-689: the document is already open.
HandlerSaveToPNG ==
    \E output \in Outputs :
        SaveEntry("PdfHandler.SaveToPNG", FALSE, TRUE, [kind |-> "nil", len |-> 0], output)

\* The native call returns and the function finishes: an error of the
\* native layer, a failed write of the output, or success.
NativeReturn ==
    /\ savePc = "native"
    /\ savePc' = "returned"
    /\ \E nativeOK \in BOOLEAN, writeOK \in BOOLEAN :
          saveErr' = IF ~nativeOK THEN "failure at the C/MuPDF layer"
                     ELSE IF saveFn # "PageCount" /\ ~writeOK THEN "fail to write to the output"
                     ELSE "nil"
    /\ UNCHANGED <<saveFn, payload, saveCtxDone, cookieAbort, abortPc,
                   abortWrittenAt>>
    /\ UNCHANGED exceptSaving

\* The owner of the context cancels it, or its deadline passes.
CancelCtx ==
    /\ ~saveCtxDone
    /\ saveCtxDone' = TRUE
    /\ UNCHANGED <<saveFn, savePc, payload, saveErr, cookieAbort, abortPc,
                   abortWrittenAt>>
    /\ UNCHANGED exceptSaving

\* The goroutine, `<-ctx.Done()`: the receive returns once the context is
\* done.
AbortWake ==
    /\ abortPc = "waiting"
    /\ saveCtxDone
    /\ abortPc' = "woken"
    /\ UNCHANGED <<saveFn, savePc, payload, saveErr, saveCtxDone, cookieAbort,
                   abortWrittenAt>>
    /\ UNCHANGED exceptSaving

\* The goroutine, `cookie.abort = 1`, after which it ends.
AbortWrite ==
    /\ abortPc = "woken"
    /\ abortPc' = "done"
    /\ cookieAbort' = 1
    /\ abortWrittenAt' = savePc
    /\ UNCHANGED <<saveFn, savePc, payload, saveErr, saveCtxDone>>
    /\ UNCHANGED exceptSaving

SaveNext ==
    \/ SaveToPNG
    \/ SaveToHTML
    \/ PageCount
    \/ HandlerSaveToPNG
    \/ NativeReturn
    \/ CancelCtx
    \/ AbortWake
    \/ AbortWrite

SaveSpec == Init /\ [][SaveNext]_vars

\* C22: SaveToPNG, SaveToHTML and PageCount return an error value and never
\* crash, whatever the payload reader yields, zero bytes included.
C22_NeverCrashes ==
    saveFn \in {"SaveToPNG", "SaveToHTML", "PageCount"} => savePc # "panicked"

\* C29: the goroutine that SaveToPNG, SaveToHTML and PdfHandler.SaveToPNG
\* start to set cookie.abort ends with the call, so it never writes the
\* flag after the native call has returned.
C29_NoAbortAfterReturn == abortWrittenAt # "returned"

\* ------------------------------------------------- editing a PdfDocument

\* The fractions of the page a location or a size may be given as.
Fractions == {-1, 0, 1, 2}

\* LocationSizeToPdfPoints, line 171: the test of the four fractions.
InvalidPercentages(x, y, width, height) ==
    x < 0 \/ x > 1 \/ y < 0 \/ y > 1 \/ width < 0 \/ width > 1
        \/ height < 0 \/ height > 1

\* AddImageToPage, AddTextBoxToPage or AddCheckboxToPage is called with the
\* PdfDocument by value (lines 321, 494, 575): the call works on a copy of
\* the struct, whose mutex is a copy and whose map is the caller's.  The page
\* is one of the document or the first one past its end.
AddToPage(t) ==
    /\ editPc[t] = "idle"
    /\ \E op \in {"AddImageToPage", "AddTextBoxToPage", "AddCheckboxToPage"},
          page \in 0..EditPages,
          inRange \in {~InvalidPercentages(x, y, width, height) :
                         x \in Fractions, y \in Fractions,
                         width \in Fractions, height \in Fractions} :
          /\ editPc' = [editPc EXCEPT ![t] = "lock"]
          /\ editPage' = [editPage EXCEPT ![t] = page]
          /\ editCall' = [editCall EXCEPT ![t] =
                [op |-> op, inRange |-> inRange, native |-> <<>>,
                 err |-> "none"]]
    /\ mu' = [mu EXCEPT ![t] = mu[0]]
    /\ UNCHANGED <<wrappedPages, wraps>>
    /\ UNCHANGED exceptEditing

\* wrapPageContents, line 298: document.mu.Lock() on the call's own copy.
WrapLock(t) ==
    /\ editPc[t] = "lock"
    /\ ~mu[t]
    /\ mu' = [mu EXCEPT ![t] = TRUE]
    /\ editPc' = [editPc EXCEPT ![t] = "check"]
    /\ UNCHANGED <<editPage, wrappedPages, wraps, editCall>>
    /\ UNCHANGED exceptEditing

\* wrapPageContents, line 301: a page already marked needs no native call.
WrapCheck(t) ==
    /\ editPc[t] = "check"
    /\ editPc' = [editPc EXCEPT ![t] =
                     IF editPage[t] \in wrappedPages THEN "unlock" ELSE "native"]
    /\ UNCHANGED <<editPage, mu, wrappedPages, wraps, editCall>>
    /\ UNCHANGED exceptEditing

\* wrapPageContents, lines 310-316: the native wrap of the page contents,
\* made for whatever page number the call was given; the page is marked when
\* it succeeded.
WrapNative(t) ==
    /\ editPc[t] = "native"
    /\ editPc' = [editPc EXCEPT ![t] = "unlock"]
    /\ \E ok \in BOOLEAN :
          IF ok
            THEN /\ wraps' = [wraps EXCEPT ![editPage[t]] = @ + 1]
                 /\ wrappedPages' = wrappedPages \cup {editPage[t]}
                 /\ editCall' = [editCall EXCEPT ![t].native =
                                    Append(@, "wrap_page_contents_for_page")]
            ELSE /\ editCall' = [editCall EXCEPT ![t].err =
                                    "failure at wrapPageContents"]
                 /\ UNCHANGED <<wraps, wrappedPages>>
    /\ UNCHANGED <<editPage, mu>>
    /\ UNCHANGED exceptEditing

\* wrapPageContents, line 299: the deferred document.mu.Unlock(); the caller
\* returns the error of the wrap (lines 326-329) or goes on.
WrapUnlock(t) ==
    /\ editPc[t] = "unlock"
    /\ mu' = [mu EXCEPT ![t] = FALSE]
    /\ editPc' = [editPc EXCEPT ![t] =
                     IF editCall[t].err = "none" THEN "validate" ELSE "done"]
    /\ UNCHANGED <<editPage, wrappedPages, wraps, editCall>>
    /\ UNCHANGED exceptEditing

\* Lines 339-350 (509-522, 588-600): AddTextBoxToPage looks up its font; then
\* LocationSizeToPdfPoints asks the native library for the size of the page,
\* which fails for a page the document does not have, and tests the
\* fractions.
Validate(t) ==
    /\ editPc[t] = "validate"
    /\ \E fontOK \in BOOLEAN :
         LET e == IF editCall[t].op = "AddTextBoxToPage" /\ ~fontOK
                  THEN "failed to find font path"
                  ELSE IF editPage[t] \notin EditPageNumbers
                  THEN "failed to get page size"
                  ELSE IF ~editCall[t].inRange
                  THEN "invalid input percentages"
                  ELSE "none"
         IN /\ editCall' = [editCall EXCEPT ![t].err = e]
            /\ editPc' = [editPc EXCEPT ![t] =
                             IF e = "none" THEN "insert" ELSE "done"]
    /\ UNCHANGED <<editPage, mu, wrappedPages, wraps>>
    /\ UNCHANGED exceptEditing

\* Lines 352-380: the native call that puts the image, the text or the
\* checkbox into the page, and the return.
Insert(t) ==
    /\ editPc[t] = "insert"
    /\ editPc' = [editPc EXCEPT ![t] = "done"]
    /\ \E ok \in BOOLEAN :
         editCall' = [editCall EXCEPT
             ![t].native = IF ok THEN Append(@, "add_to_page") ELSE @,
             ![t].err = IF ok THEN "nil" ELSE "failure at the C/MuPDF layer"]
    /\ UNCHANGED <<editPage, mu, wrappedPages, wraps>>
    /\ UNCHANGED exceptEditing

EditNext ==
    \/ \E t \in Editors : AddToPage(t)
    \/ \E t \in Editors : WrapLock(t)
    \/ \E t \in Editors : WrapCheck(t)
    \/ \E t \in Editors : WrapNative(t)
    \/ \E t \in Editors : WrapUnlock(t)
    \/ \E t \in Editors : Validate(t)
    \/ \E t \in Editors : Insert(t)

EditSpec == Init /\ [][EditNext]_vars

\* The call is between the Lock and the Unlock of wrapPageContents.
InWrap(t) == editPc[t] \in {"check", "native", "unlock"}

\* C23: editing calls on the same PdfDocument are serialised by its lock: no
\* two of them are inside the check-and-mark of wrappedPages at the same
\* time, and a page is wrapped at most once.
C23_WrapSerialized ==
    /\ \A t, u \in Editors : (InWrap(t) /\ InWrap(u)) => t = u
    /\ \A n \in EditPageNumbers : wraps[n] <= 1

\* ---------------------------------- the revision with a cleanUpChan

FasterPages == 1..(DocPages + 1)

\* Run, lines 476-513.
FasterRun ==
    /\ panicked = "none"
    /\ IF hasRun
       THEN /\ runResult' = ErrAlreadyRun
            /\ UNCHANGED <<hasRun, locks, Ctx, Document, loopPc>>
       ELSE \E locksOK \in BOOLEAN, opened \in BOOLEAN :
            /\ hasRun' = TRUE
            /\ locks' = IF locksOK THEN "live" ELSE "nil"
            /\ Ctx' = IF locksOK THEN "live" ELSE Ctx
            /\ Document' = IF locksOK /\ opened THEN "live" ELSE Document
            /\ loopPc' = IF locksOK /\ opened THEN "top" ELSE loopPc
            /\ runResult' = IF ~locksOK THEN ErrNoLocks
                            ELSE IF ~opened THEN ErrOpenDocument
                            ELSE "nil"
    /\ UNCHANGED <<quitChan, quitClosed, RequestChan, reqQueue, reqClosed,
                   docPageCount, backgroundRenderWg, released, panicked,
                   callers, replies, renders, faster>>
    /\ UNCHANGED exceptFaster

\* Stop, lines 594-595: close(r.quitChan) when the field is not nil.
FasterStopClose ==
    /\ panicked = "none"
    /\ stopPc = "idle"
    /\ quitChan # "nil"
    /\ quitClosed' = TRUE
    /\ stopPc' = "closed"
    /\ UNCHANGED <<hasRun, quitChan, RequestChan, reqQueue, reqClosed, Ctx,
                   Document, locks, docPageCount, backgroundRenderWg, loopPc,
                   released, lifecycle, panicked, callers, replies, renders,
                   selQuit, cleanUpChan>>
    /\ UNCHANGED exceptFaster

\* Stop, line 596: r.quitChan = nil, written by the caller of Stop.
FasterStopNil ==
    /\ panicked = "none"
    /\ stopPc = "closed"
    /\ quitChan' = "nil"
    /\ stopPc' = "idle"
    /\ UNCHANGED <<hasRun, quitClosed, RequestChan, reqQueue, reqClosed, Ctx,
                   Document, locks, docPageCount, backgroundRenderWg, loopPc,
                   released, lifecycle, panicked, callers, replies, renders,
                   selQuit, cleanUpChan>>
    /\ UNCHANGED exceptFaster

\* GeneratePage, lines 442-460: the two checks and the send of the request,
\* which waits for room in RequestChan.
FasterGeneratePage(c) ==
    /\ panicked = "none"
    /\ pc[c] = "idle"
    /\ IF ~hasRun \/ Ctx = "nil" \/ Document = "nil"
       THEN /\ pc' = [pc EXCEPT ![c] = "returned"]
            /\ result' = [result EXCEPT ![c] =
                  [response |-> "none",
                   err |-> IF ~hasRun THEN ErrNotStarted ELSE ErrCleanedUp]]
            /\ UNCHANGED <<req, reqQueue>>
       ELSE /\ RequestChan = "chan"
            /\ Len(reqQueue) < QueueCap
            /\ \E page \in FasterPages :
                  req' = [req EXCEPT ![c] = [PageNumber |-> page,
                                             RasterType |-> "RasterImage",
                                             ctx |-> FALSE]]
            /\ reqQueue' = Append(reqQueue, c)
            /\ pc' = [pc EXCEPT ![c] = "waiting"]
            /\ UNCHANGED result
    /\ UNCHANGED <<hasRun, quitChan, quitClosed, RequestChan, reqClosed, Ctx,
                   Document, locks, docPageCount, backgroundRenderWg, loopPc,
                   released, lifecycle, panicked, sendChan, ctxDone, calledAt,
                   replies, renders, faster>>
    /\ UNCHANGED exceptFaster

\* GeneratePage, lines 463-470: the reply, after which the caller closes the
\* reply channel, or the RasterTimeout.
FasterGeneratePageReturn(c) ==
    /\ panicked = "none"
    /\ pc[c] = "waiting"
    /\ pc' = [pc EXCEPT ![c] = "returned"]
    /\ \/ /\ replyChan[c] # <<>>
          /\ result' = [result EXCEPT ![c] =
                [response |-> Head(replyChan[c]).kind,
                 err |-> Head(replyChan[c]).err]]
          /\ replyChan' = [replyChan EXCEPT ![c] = Tail(@)]
          /\ replyClosed' = [replyClosed EXCEPT ![c] = TRUE]
       \/ /\ result' = [result EXCEPT ![c] =
                [response |-> "none", err |-> ErrRasterTimeout]]
          /\ UNCHANGED <<replyChan, replyClosed>>
    /\ UNCHANGED <<rasterizer, lifecycle, panicked, req, sendChan, ctxDone,
                   calledAt, sent, renders, faster>>
    /\ UNCHANGED exceptFaster

\* mainEventLoop, line 524: on entering the select the loop evaluates its
\* channel operands, r.quitChan among them, once.
FasterEnterSelect ==
    /\ panicked = "none"
    /\ loopPc = "top"
    /\ loopPc' = "select"
    /\ selQuit' = quitChan
    /\ UNCHANGED <<hasRun, quitChan, quitClosed, RequestChan, reqQueue,
                   reqClosed, Ctx, Document, locks, docPageCount,
                   backgroundRenderWg, released, lifecycle, panicked, callers,
                   replies, renders, cleanUpChan, stopPc>>
    /\ UNCHANGED exceptFaster

\* mainEventLoop, lines 525-529: a request is received.
FasterLoopRequest ==
    /\ panicked = "none"
    /\ loopPc = "select"
    /\ reqQueue # <<>>
    /\ reqQueue' = Tail(reqQueue)
    /\ dequeued' = [dequeued EXCEPT ![Head(reqQueue)] = TRUE]
    /\ bg' = [bg EXCEPT ![Head(reqQueue)] = "processing"]
    /\ loopPc' = "processOne"
    /\ UNCHANGED <<hasRun, quitChan, quitClosed, RequestChan, reqClosed, Ctx,
                   Document, locks, docPageCount, backgroundRenderWg,
                   released, lifecycle, panicked, callers, replies, cloneCtx,
                   loadCalls, ctxLog, faster>>
    /\ UNCHANGED exceptFaster

\* processOne, lines 678-752, for the request the loop received: the reply
\* for a closed document or a bad page, or the start of backgroundRender on
\* a cloned context.
FasterProcessOne(id) ==
    /\ panicked = "none"
    /\ loopPc = "processOne"
    /\ bg[id] = "processing"
    /\ loopPc' = "top"
    /\ IF Ctx = "nil" \/ Document = "nil"
       THEN /\ sent' = [sent EXCEPT ![id] =
                  Append(@, Reply("error", ErrClosedDocument, "closed"))]
            /\ replyChan' = [replyChan EXCEPT ![id] =
                  Append(@, Reply("error", ErrClosedDocument, "closed"))]
            /\ bg' = [bg EXCEPT ![id] = "none"]
            /\ UNCHANGED <<cloneCtx, loadCalls>>
       ELSE IF req[id].PageNumber > DocPages
       THEN /\ sent' = [sent EXCEPT ![id] =
                  Append(@, Reply("error", ErrBadPage, "bad_page"))]
            /\ replyChan' = [replyChan EXCEPT ![id] =
                  SendNonBlocking(@, Reply("error", ErrBadPage, "bad_page"))]
            /\ bg' = [bg EXCEPT ![id] = "none"]
            /\ UNCHANGED <<cloneCtx, loadCalls>>
       ELSE /\ loadCalls' = [loadCalls EXCEPT ![id] = @ + 1]
            /\ cloneCtx' = [cloneCtx EXCEPT ![id] = "live"]
            /\ bg' = [bg EXCEPT ![id] = "run"]
            /\ UNCHANGED <<sent, replyChan>>
    /\ UNCHANGED <<hasRun, quitChan, quitClosed, RequestChan, reqQueue,
                   reqClosed, Ctx, Document, locks, docPageCount,
                   backgroundRenderWg, released, lifecycle, panicked, callers,
                   replyClosed, dequeued, ctxLog, faster>>
    /\ UNCHANGED exceptFaster

\* backgroundRender, lines 775-798: the draw, the drop of the cloned context
\* and the reply; the deferred cleanUp is then due.
FasterBackgroundRender(id) ==
    /\ panicked = "none"
    /\ bg[id] = "run"
    /\ cloneCtx' = [cloneCtx EXCEPT ![id] = "dropped"]
    /\ sent' = [sent EXCEPT ![id] = Append(@, Reply("image", "nil", "render"))]
    /\ IF replyClosed[id]
       THEN /\ panicked' = "send on closed channel"
            /\ UNCHANGED replyChan
       ELSE /\ replyChan' = [replyChan EXCEPT ![id] =
                  SendNonBlocking(@, Reply("image", "nil", "render"))]
            /\ UNCHANGED panicked
    /\ bg' = [bg EXCEPT ![id] = "deferred"]
    /\ UNCHANGED <<rasterizer, lifecycle, callers, replyClosed, loadCalls,
                   dequeued, ctxLog, faster>>
    /\ UNCHANGED exceptFaster

\* cleanUp, line 805, met by mainEventLoop, lines 529-539: the send on the
\* unbuffered cleanUpChan is taken by the loop's select, which runs the
\* function on the root context.  Once finalCleanUp has closed the channel
\* and set the field to nil, the send blocks for ever on the nil field or
\* panics on the closed channel, whichever the unsynchronised read yields.
FasterCleanUp(id) ==
    /\ panicked = "none"
    /\ bg[id] = "deferred"
    /\ IF cleanUpChan = "chan"
       THEN /\ loopPc = "select"
            /\ loopPc' = "top"
            /\ bg' = [bg EXCEPT ![id] = "finished"]
            /\ ctxLog' = [ctxLog EXCEPT ![id] =
                  @ \o <<"fz_drop_pixmap", "fz_drop_display_list">>]
            /\ UNCHANGED panicked
       ELSE /\ panicked' = "send on closed channel"
            /\ UNCHANGED <<loopPc, bg, ctxLog>>
    /\ UNCHANGED <<hasRun, quitChan, quitClosed, RequestChan, reqQueue,
                   reqClosed, Ctx, Document, locks, docPageCount,
                   backgroundRenderWg, released, lifecycle, callers, replies,
                   cloneCtx, loadCalls, dequeued, faster>>
    /\ UNCHANGED exceptFaster

\* mainEventLoop, lines 540-541: the quit case, ready when the channel the
\* select read is closed; a nil channel is never ready.
FasterLoopQuit ==
    /\ panicked = "none"
    /\ loopPc = "select"
    /\ selQuit = "chan"
    /\ quitClosed
    /\ loopPc' = "finalCleanUp"
    /\ UNCHANGED <<hasRun, quitChan, quitClosed, RequestChan, reqQueue,
                   reqClosed, Ctx, Document, locks, docPageCount,
                   backgroundRenderWg, released, lifecycle, panicked, callers,
                   replies, renders, faster>>
    /\ UNCHANGED exceptFaster

\* finalCleanUp, lines 550-588.
FasterFinalCleanUp ==
    /\ panicked = "none"
    /\ loopPc = "finalCleanUp"
    /\ Document' = "nil"
    /\ Ctx' = "nil"
    /\ reqClosed' = (reqClosed \/ RequestChan # "nil")
    /\ RequestChan' = "nil"
    /\ cleanUpChan' = "nil"
    /\ locks' = "nil"
    /\ released' = released
                   \o (IF Document # "nil" THEN <<"document">> ELSE <<>>)
                   \o (IF Ctx # "nil" THEN <<"context">> ELSE <<>>)
                   \o <<"locks">>
    /\ loopPc' = "done"
    /\ UNCHANGED <<hasRun, quitChan, quitClosed, reqQueue, docPageCount,
                   backgroundRenderWg, lifecycle, panicked, callers, replies,
                   renders, selQuit, stopPc>>
    /\ UNCHANGED exceptFaster

FasterLoopStep ==
    \/ FasterEnterSelect
    \/ FasterLoopRequest
    \/ \E id \in Callers : FasterProcessOne(id)
    \/ FasterLoopQuit
    \/ FasterFinalCleanUp

FasterNext ==
    \/ FasterRun
    \/ FasterStopClose
    \/ FasterStopNil
    \/ \E c \in Callers : FasterGeneratePage(c)
    \/ \E c \in Callers : FasterGeneratePageReturn(c)
    \/ FasterEnterSelect
    \/ FasterLoopRequest
    \/ \E id \in Callers : FasterProcessOne(id)
    \/ \E id \in Callers : FasterBackgroundRender(id)
    \/ \E id \in Callers : FasterCleanUp(id)
    \/ FasterLoopQuit
    \/ FasterFinalCleanUp

\* A goroutine that can run does run: the event loop, the second statement
\* of Stop, the background renders and their cleanUp.
FasterFairness ==
    /\ WF_vars(FasterLoopStep)
    /\ WF_vars(FasterStopNil)
    /\ \A id \in Callers : WF_vars(FasterBackgroundRender(id))
    /\ \A id \in Callers : WF_vars(FasterCleanUp(id))

FasterSpec == Init /\ [][FasterNext]_vars /\ FasterFairness

\* C24: in the revision where Stop sets quitChan to nil, a Stop on a
\* Rasterizer whose Run succeeded always leads the event loop to exit and
\* finalCleanUp to complete, with RequestChan, quitChan and locks nil.
C24_StopLeadsToCleanUp ==
    (loopPc # "not_started" /\ quitClosed)
        ~> (loopPc = "done" /\ RequestChan = "nil" /\ quitChan = "nil"
            /\ locks = "nil")

C26_ReleaseOrder ==
    /\ released \in {<<>>, <<"document", "context", "locks">>}
    /\ released # <<>> <=> loopPc = "done"
    /\ released # <<>> =>
          /\ backgroundRenderWg = 0
          /\ \A id \in Requests : bg[id] \in {"none", "finished"}
          /\ Document = "nil" /\ Ctx = "nil" /\ locks = "nil"

\* C26 witness: the resources were released after a background render that
\* was started before had finished.
C26_Witness ==
    /\ released = <<"document", "context", "locks">>
    /\ \E id \in Requests : bg[id] = "finished"

\* The positions of the native call op among the calls made on the cloned
\* context of request id.
Occurrences(id, op) == {i \in 1..Len(ctxLog[id]) : ctxLog[id][i] = op}

\* The deferred function of the background render of request id has made
\* its drops: a, then b, then c, each exactly once.
DroppedInOrder(id, a, b, c) ==
    LET as == Occurrences(id, a)
        bs == Occurrences(id, b)
        cs == Occurrences(id, c)
    IN /\ Cardinality(as) = 1
       /\ Cardinality(bs) = 1
       /\ Cardinality(cs) = 1
       /\ \A i \in as, j \in bs, k \in cs : i < j /\ j < k

\* C27, as stated: on every exit of the background render the cloned
\* context is dropped first, then the display list, then the pixmap, each
\* exactly once, before completion is signalled to the WaitGroup.
C27_ContextListPixmap ==
    \A id \in Requests :
        bg[id] \in {"wg_done", "finished"}
            => DroppedInOrder(id, "fz_drop_context", "fz_drop_display_list",
                              "fz_drop_pixmap")

\* C27, amended: on every exit of the background render the pixmap is
\* dropped first, then the display list, then the cloned context, each
\* exactly once, and only then is completion signalled to the WaitGroup; no
\* drop is made while the render still runs.
C27_PixmapListContext ==
    \A id \in Requests :
        /\ bg[id] \in {"wg_done", "finished"}
              => DroppedInOrder(id, "fz_drop_pixmap", "fz_drop_display_list",
                                "fz_drop_context")
        /\ bg[id] \in {"run", "deferred"}
              => /\ Occurrences(id, "fz_drop_pixmap") = {}
                 /\ Occurrences(id, "fz_drop_display_list") = {}
                 /\ Occurrences(id, "fz_drop_context") = {}
        /\ bg[id] \in {"run", "deferred", "wg_done"} => backgroundRenderWg > 0

\* C27 witness: a background render that was cancelled has made its drops
\* and has called Done.
C27_Witness ==
    \E id \in Requests :
        /\ bg[id] = "finished"
        /\ \E i \in 1..Len(sent[id]) :
              sent[id][i].phase = "background" /\ sent[id][i].err = ErrBadPage

\* ------------------------------------------- runCancellableOperation

\* runCancellableOperation, lines 385-402: without a context the function
\* is run as it is; with one, the cookie and the done channel are made and
\* the watcher goroutine is started before the function runs.
OpStart(o) ==
    /\ opPc[o] = "idle"
    /\ \E hasCtx \in BOOLEAN :
          /\ opHasCtx' = [opHasCtx EXCEPT ![o] = hasCtx]
          /\ watcherPc' = [watcherPc EXCEPT ![o] =
                              IF hasCtx THEN "select" ELSE "none"]
    /\ opPc' = [opPc EXCEPT ![o] = "native"]
    /\ UNCHANGED <<opCtxDone, opDone, abortWrites, opErr>>
    /\ UNCHANGED exceptWatching

\* The context of the request is done: its deadline has passed or its owner
\* has cancelled it, before, during or after the operation.
OpCtxDone(o) ==
    /\ ~opCtxDone[o]
    /\ opCtxDone' = [opCtxDone EXCEPT ![o] = TRUE]
    /\ UNCHANGED <<opPc, opHasCtx, opDone, watcherPc, abortWrites, opErr>>
    /\ UNCHANGED exceptWatching

\* runCancellableOperation, lines 388 and 404: the native function returns.
OpFnReturns(o) ==
    /\ opPc[o] = "native"
    /\ IF opHasCtx[o]
       THEN /\ opPc' = [opPc EXCEPT ![o] = "fn_returned"]
            /\ UNCHANGED opErr
       ELSE /\ opPc' = [opPc EXCEPT ![o] = "returned"]
            /\ opErr' = [opErr EXCEPT ![o] = "nil"]
    /\ UNCHANGED <<opHasCtx, opCtxDone, opDone, watcherPc, abortWrites>>
    /\ UNCHANGED exceptWatching

\* runCancellableOperation, lines 407-415: close(done), then the error that
\* is returned.
OpCloseDone(o) ==
    /\ opPc[o] = "fn_returned"
    /\ opDone' = [opDone EXCEPT ![o] = TRUE]
    /\ opPc' = [opPc EXCEPT ![o] = "returned"]
    /\ \E cookieErrors \in BOOLEAN :
          opErr' = [opErr EXCEPT ![o] =
                       IF opCtxDone[o] \/ cookieErrors THEN ErrBadPage
                       ELSE "nil"]
    /\ UNCHANGED <<opHasCtx, opCtxDone, watcherPc, abortWrites>>
    /\ UNCHANGED exceptWatching

\* A watcher whose select has no done case.
WatcherWakesOnCtxOnly(ctxFired, doneClosed) == ctxFired

\* The watcher, lines 395-400: its select is ready when the context is done
\* or when the done channel is closed.
WatcherWakes(ctxFired, doneClosed) == ctxFired \/ doneClosed

\* The watcher, lines 394-401: it takes one of the ready cases, writes
\* cookie.abort in the first of them, and ends.
Watcher(o) ==
    /\ watcherPc[o] = "select"
    /\ WatcherWakes(opCtxDone[o], opDone[o])
    /\ watcherPc' = [watcherPc EXCEPT ![o] = "ended"]
    /\ \/ /\ opCtxDone[o]
          /\ abortWrites' = [abortWrites EXCEPT ![o] = Append(@, "ctx.Done")]
       \/ /\ opDone[o]
          /\ UNCHANGED abortWrites
    /\ UNCHANGED <<opPc, opHasCtx, opCtxDone, opDone, opErr>>
    /\ UNCHANGED exceptWatching

WatchNext ==
    \/ \E o \in Ops : OpStart(o)
    \/ \E o \in Ops : OpCtxDone(o)
    \/ \E o \in Ops : OpFnReturns(o)
    \/ \E o \in Ops : OpCloseDone(o)
    \/ \E o \in Ops : Watcher(o)

\* A goroutine that can run does run: the watcher, and the caller between
\* the return of the native function and close(done).
WatchSpec ==
    /\ Init
    /\ [][WatchNext]_vars
    /\ \A o \in Ops : WF_vars(Watcher(o)) /\ WF_vars(OpCloseDone(o))

\* C28: the watcher goroutine has ended some time after the native call has
\* returned, whenever the context fires or not; it writes the abort flag at
\* most once, and only when the context has fired.
C28_WatcherTerminates ==
    /\ [](\A o \in Ops :
            /\ Len(abortWrites[o]) <= 1
            /\ abortWrites[o] # <<>> => opCtxDone[o])
    /\ \A o \in Ops :
          (opPc[o] \in {"fn_returned", "returned"})
              ~> (watcherPc[o] \in {"none", "ended"})

\* C28 witness: an operation has returned without its context ever firing,
\* and its watcher has ended without writing the flag.
C28_Witness ==
    \E o \in Ops :
        /\ opPc[o] = "returned"
        /\ opHasCtx[o]
        /\ ~opCtxDone[o]
        /\ watcherPc[o] = "ended"
        /\ abortWrites[o] = <<>>

\* Request id asks for the bitmap of a page of the document.
BitmapInRange(id) ==
    /\ req[id].RasterType = "RasterImage"
    /\ ~PageOutOfRange(req[id].PageNumber, docPageCount)

\* C30: the event loop does not wait for a background render.  While a
\* render is in flight the loop can take the next request and, when it asks
\* for a bitmap, start a second render beside the first; and of two renders
\* in flight either one can reply next.
C30_LoopDoesNotWaitForRender ==
    /\ (/\ loopPc = "select"
        /\ reqQueue # <<>>
        /\ \E id \in Requests : bg[id] = "run")
          => /\ ENABLED LoopProcessOne
             /\ BitmapInRange(Head(reqQueue))
                   => ENABLED (LoopProcessOne /\ bg'[Head(reqQueue)] = "run")
    /\ \A id, other \in Requests :
          (id # other /\ bg[id] = "run" /\ bg[other] = "run")
              => ENABLED (BackgroundRender(id) /\ bg'[other] = "run")

\* C30 witness: the background renders of two requests are in flight at the
\* same time.
C30_Witness ==
    \E id, other \in Requests :
        id # other /\ bg[id] = "run" /\ bg[other] = "run"

\* ------------------------------------------- the event loop, call by call

\* A loop that starts processOne with a go statement and returns to its
\* select at once.
ProcessOneSpawned == FALSE

\* mainEventLoop, line 276: r.processOne(req) is a plain call, so the loop
\* goroutine is inside processOne until it returns.
ProcessOneCalled == TRUE

\* mainEventLoop, lines 271-276: the receive from RequestChan and the call of
\* processOne for the request it yields.
LoopReceive ==
    /\ panicked = "none"
    /\ loopPc = "select"
    /\ reqQueue # <<>>
    /\ reqQueue' = Tail(reqQueue)
    /\ syncPc' = [syncPc EXCEPT ![Head(reqQueue)] = "running"]
    /\ loopPc' = IF ProcessOneCalled THEN "processOne" ELSE "select"
    /\ UNCHANGED <<hasRun, quitChan, quitClosed, RequestChan, reqClosed, Ctx,
                   Document, locks, docPageCount, backgroundRenderWg, released,
                   lifecycle, panicked, callers, replies, renders>>
    /\ UNCHANGED <<scaling, saving, editing, faster, watching, callback>>

\* processOne runs for request id and returns to the loop (for an SVG request
\* renderToSVG has run inside it).
LoopProcessOneReturn(id) ==
    /\ panicked = "none"
    /\ syncPc[id] = "running"
    /\ processOne(id)
    /\ syncPc' = [syncPc EXCEPT ![id] = "done"]
    /\ loopPc' = "select"
    /\ UNCHANGED <<hasRun, quitChan, quitClosed, RequestChan, reqQueue,
                   reqClosed, Ctx, Document, locks, docPageCount, released,
                   lifecycle, callers>>
    /\ UNCHANGED <<scaling, saving, editing, faster, watching, callback>>

\* A running Rasterizer (Run has opened the document, the loop is in its
\* select) at the moment when each of the concurrent generatePage calls has
\* passed its checks, built its request for a page of the document and
\* entered the select that sends it (lines 136-168).
OrderInit ==
    /\ hasRun = TRUE
    /\ quitChan = "chan"
    /\ quitClosed = FALSE
    /\ RequestChan = "chan"
    /\ reqQueue = <<>>
    /\ reqClosed = FALSE
    /\ Ctx = "live"
    /\ Document = "live"
    /\ locks = "live"
    /\ docPageCount = DocPages
    /\ backgroundRenderWg = 0
    /\ loopPc = "select"
    /\ released = <<>>
    /\ runResult = "nil"
    /\ panicked = "none"
    /\ pc = [c \in Requests |-> IF c \in Concurrent THEN "sending" ELSE "idle"]
    /\ req \in [Requests -> [PageNumber : 1..DocPages, RasterType : RasterTypes,
                             ctx : {TRUE}]]
    /\ sendChan = [c \in Requests |-> IF c \in Concurrent THEN "chan" ELSE "none"]
    /\ ctxDone = [c \in Requests |-> FALSE]
    /\ replyChan = [c \in Requests |-> <<>>]
    /\ replyClosed = [c \in Requests |-> FALSE]
    /\ result = [c \in Requests |-> NoResult]
    /\ sent = [c \in Requests |-> <<>>]
    /\ calledAt = [c \in Requests |-> [hasRun |-> TRUE, loopPc |-> "select"]]
    /\ cloneCtx = [c \in Requests |-> "none"]
    /\ loadCalls = [c \in Requests |-> 0]
    /\ dequeued = [c \in Requests |-> FALSE]
    /\ ctxLog = [c \in Requests |-> <<>>]
    /\ bg = [c \in Requests |-> "none"]
    /\ call = NoCall
    /\ scaleFactor = Ratio(0, 1)
    /\ pageShapes = <<>>
    /\ defaultScale = [set |-> FALSE, value |-> Ratio(0, 1)]
    /\ lastRender = NoRender
    /\ StandaloneInit

\* The sends of these calls, the event loop taken call by call, the
\* background renders and the receipt of the replies.
OrderNext ==
    \/ \E c \in Concurrent : SendRequest(c)
    \/ \E c \in Concurrent : ReceiveReply(c)
    \/ LoopReceive
    \/ \E id \in Concurrent : LoopProcessOneReturn(id)
    \/ \E id \in Concurrent : BackgroundRender(id)
    \/ \E id \in Concurrent : BackgroundDrop(id)
    \/ \E id \in Concurrent : BackgroundDone(id)

OrderSpec == OrderInit /\ [][OrderNext]_vars

\* C31: the synchronous phases of different requests never overlap (at most
\* one request is inside processOne at any time) and they run in the order in
\* which the requests were enqueued on RequestChan: a request enters
\* processOne only from the head of the channel's buffer, so every request
\* enqueued before it has entered already and every request still queued
\* has not.
C31_SyncPhasesInOrder ==
    /\ [](/\ Cardinality({id \in Requests : syncPc[id] = "running"}) <= 1
          /\ \A i \in 1..Len(reqQueue) : syncPc[reqQueue[i]] = "none")
    /\ [][\A id \in Requests :
            (syncPc[id] = "none" /\ syncPc'[id] # "none")
                => (reqQueue # <<>> /\ id = Head(reqQueue))]_vars

\* The second caller's request was enqueued first and is inside processOne
\* while the first caller's request waits in the buffer.
C31_Witness ==
    /\ syncPc[2] = "running"
    /\ reqQueue = <<1>>
    /\ req[2].RasterType = "RasterSVG"

\* The native calls the background render task of request id has made so
\* far: what follows the calls of processOne in the log of the request.
TaskOps(id) ==
    SubSeq(ctxLog[id], Len(PageOps \o CaptureOps \o PixmapOps) + 1,
           Len(ctxLog[id]))

\* C32: a background render task works on its cloned context, its display
\* list and its pixmap only: none of the native calls it makes is given the
\* root context or the document handle of the Rasterizer.
C32_TaskUsesCloneOnly ==
    \A id \in Requests :
        bg[id] # "none" =>
            \A i \in 1..Len(TaskOps(id)) : RootHandles(TaskOps(id)[i]) = {}

\* A background render has drawn, replied and dropped its objects, while the
\* calls of processOne before it did take the root context and the document.
C32_Witness ==
    \E id \in Requests :
        /\ bg[id] = "finished"
        /\ TaskOps(id) = BackgroundOps \o BackgroundDeferred
        /\ \E i \in 1..Len(PageOps) : RootHandles(ctxLog[id][i]) = {"Document"}
        /\ \E r \in {sent[id][i] : i \in 1..Len(sent[id])} :
               r.kind = "RasterImageReply"

\* C33: the rotation the scale heuristic uses is normalized: for a landscape
\* box and a request without width and scale, a raw rotation that is 0 or 180
\* modulo 360 (360, -180, 540 as well as 0 and 180) gives LandscapeScale.
C33_RotationModulo360 ==
    (/\ call.fn = "scalePage"
     /\ call.width = 0
     /\ call.scale.num = 0
     /\ Landscape(call.bounds)
     /\ call.rotation % 360 \in {0, 180})
    => call.result = LandscapeScale

\* C34: calculateScaleForDocument leaves LandscapeScale as the scale of the
\* document exactly when some page that loads resolves to LandscapeScale under
\* the orientation heuristic, and PortraitScale otherwise; for a document
\* with at least one page it never leaves the scale at 0.
C34_DocumentScale ==
    (defaultScale.set /\ Len(pageShapes) >= 1)
    => /\ defaultScale.value.num # 0
       /\ IF \E i \in 1..Len(pageShapes) :
                /\ pageShapes[i].loads
                /\ scalePage(pageShapes[i].rotation, pageShapes[i].bounds,
                             NilRequest) = LandscapeScale
          THEN defaultScale.value = LandscapeScale
          ELSE defaultScale.value = PortraitScale

\* C37: when load_page returns no page, the request gets exactly one
\* ErrBadPage reply and its processing stops there: no native call is given
\* the missing page, no backgroundRender is spawned, the cloned context is
\* dropped, and nothing is sent later on a reply channel its caller has
\* closed.
C37_MissingPageStopsProcessing ==
    (lastRender.page # 0 /\ ~lastRender.loaded)
    => /\ lastRender.replies = <<ErrBadPage>>
       /\ lastRender.nilPageCalls = <<>>
       /\ lastRender.bg = "none"
       /\ lastRender.cloneCtx = "dropped"
       /\ lastRender.panic = "none"

\* C35: when AddImageToPage, AddTextBoxToPage or AddCheckboxToPage is given a
\* page the document does not have, or a location or size fraction outside
\* [0, 1], it returns an error and has made no native call that changed the
\* document (neither the wrap of the page contents nor the insertion).
C35_InvalidInputLeavesDocument ==
    \A t \in Editors :
        (/\ editPc[t] = "done"
         /\ (editPage[t] \notin EditPageNumbers \/ ~editCall[t].inRange))
        => /\ editCall[t].err \notin {"none", "nil"}
           /\ editCall[t].native = <<>>

\* The reply variant that the type assertion of GeneratePageImage or
\* GeneratePageSVG expects for a request of the given raster kind.
Asserted(kind) ==
    IF kind = "RasterSVG" THEN "RasterSVGReply" ELSE "RasterImageReply"

\* C36: every reply without an error has the variant that matches the raster
\* kind of its request, and every reply of the error variant carries an error
\* that is not nil; so a generatePage call that returns no error returns the
\* variant the type assertion of its wrapper expects.
C36_ReplyVariantMatches ==
    \A id \in Requests :
        /\ \A i \in 1..Len(sent[id]) :
               IF sent[id][i].kind = "error"
               THEN sent[id][i].err # "nil"
               ELSE /\ sent[id][i].err = "nil"
                    /\ sent[id][i].kind = Asserted(req[id].RasterType)
        /\ (pc[id] = "returned" /\ result[id].err = "nil")
               => result[id].response = Asserted(req[id].RasterType)

\* A call for an image has returned the image reply of its backgroundRender.
C36_Witness ==
    \E id \in Requests :
        /\ pc[id] = "returned"
        /\ req[id].RasterType = "RasterImage"
        /\ result[id] = [response |-> "RasterImageReply", err |-> "nil"]
        /\ bg[id] # "none"

\* ------------------------------------- SaveToPNG with a completion callback

\* SaveToPNG of src/main.go, lines 136-171: the argument checks, the
\* registration of the call's two channels under saveToPNGMutex, and
\* C.save_to_png, which starts the native thread and returns.
CallbackSaveToPNG(i) ==
    /\ cb[i].pc = "idle"
    /\ \E argsOK \in BOOLEAN :
         IF ~argsOK
         THEN /\ cb' = [cb EXCEPT ![i].pc = "returned",
                                  ![i].err = "payload can't be nil"]
              /\ UNCHANGED <<saveToPNGState, saveToPNGMutex>>
         ELSE /\ saveToPNGMutex = Unlocked
              /\ saveToPNGState' = saveToPNGState \cup {i}
              /\ cb' = [cb EXCEPT ![i].pc = "select", ![i].native = "running"]
              /\ UNCHANGED saveToPNGMutex
    /\ UNCHANGED exceptCallback

\* The context given to call i is cancelled or its deadline passes.
CallbackCtxDone(i) ==
    /\ cb[i].pc = "select"
    /\ ~cb[i].ctxDone
    /\ cb' = [cb EXCEPT ![i].ctxDone = TRUE]
    /\ UNCHANGED <<saveToPNGState, saveToPNGMutex>>
    /\ UNCHANGED exceptCallback

\* SaveToPNG, lines 174-175: case <-ctx.Done(); the deferred
\* cleanSaveToPNGState is what is left to run.
SelectCtxDone(i) ==
    /\ cb[i].pc = "select"
    /\ cb[i].ctxDone
    /\ cb' = [cb EXCEPT ![i].pc = "clean", ![i].err = "ctx.Err()"]
    /\ UNCHANGED <<saveToPNGState, saveToPNGMutex>>
    /\ UNCHANGED exceptCallback

\* callbackSaveToPNGOutput, lines 232-236, on the native thread of call i:
\* it takes saveToPNGMutex and looks the call up in the map; for an id that
\* is no longer there the map yields a value whose channels are nil.
callbackSaveToPNGOutput(i) ==
    /\ cb[i].native = "running"
    /\ saveToPNGMutex = Unlocked
    /\ saveToPNGMutex' = [by |-> "callback", id |-> i]
    /\ cb' = [cb EXCEPT ![i].native = "send",
                        ![i].chan = IF i \in saveToPNGState THEN "chan"
                                    ELSE "nil"]
    /\ UNCHANGED saveToPNGState
    /\ UNCHANGED exceptCallback

\* The send of lines 237-240 on the unbuffered chanError or chanResult meets
\* the receive of the select (lines 176-181); a send on a nil channel, or
\* one whose receiver has left the select, never completes.
SelectReceive(i) ==
    /\ cb[i].pc = "select"
    /\ cb[i].native = "send"
    /\ cb[i].chan = "chan"
    /\ \E e \in {"nil", "failure at the C/MuPDF layer"} :
         cb' = [cb EXCEPT ![i].pc = "clean", ![i].err = e,
                          ![i].native = "unlock"]
    /\ UNCHANGED <<saveToPNGState, saveToPNGMutex>>
    /\ UNCHANGED exceptCallback

\* callbackSaveToPNGOutput, line 233: the deferred Unlock once the send has
\* completed.
CallbackReturn(i) ==
    /\ cb[i].native = "unlock"
    /\ saveToPNGMutex' = Unlocked
    /\ cb' = [cb EXCEPT ![i].native = "done"]
    /\ UNCHANGED saveToPNGState
    /\ UNCHANGED exceptCallback

\* cleanSaveToPNGState, lines 243-247, deferred by SaveToPNG: Lock, delete,
\* Unlock; the call returns after it.
cleanSaveToPNGState(i) ==
    /\ cb[i].pc = "clean"
    /\ saveToPNGMutex = Unlocked
    /\ saveToPNGState' = saveToPNGState \ {i}
    /\ cb' = [cb EXCEPT ![i].pc = "returned"]
    /\ UNCHANGED saveToPNGMutex
    /\ UNCHANGED exceptCallback

CallbackNext ==
    \/ \E i \in Calls : CallbackSaveToPNG(i)
    \/ \E i \in Calls : CallbackCtxDone(i)
    \/ \E i \in Calls : SelectCtxDone(i)
    \/ \E i \in Calls : callbackSaveToPNGOutput(i)
    \/ \E i \in Calls : SelectReceive(i)
    \/ \E i \in Calls : CallbackReturn(i)
    \/ \E i \in Calls : cleanSaveToPNGState(i)

CallbackSpec == Init /\ [][CallbackNext]_vars

\* C38: cancelling the context of one SaveToPNG call blocks nothing: the
\* completion callback is never left inside its send, holding
\* saveToPNGMutex, for a call whose select is over or whose channels are
\* gone, so that the cleanup of the call and every later call can take the
\* mutex.
C38_CancelBlocksNothing ==
    \A i \in Calls :
        (cb[i].native = "send" /\ saveToPNGMutex = [by |-> "callback", id |-> i])
        => (cb[i].pc = "select" /\ cb[i].chan = "chan")

====
